---- MODULE Spec2Model ----
(***************************************************************************)
(* The policy recommendation engine of ask_my_policy                       *)
(* (backend/src/policy_recommender.py): premium resolution over the        *)
(* age/city/category premium tables, coverage extraction, keyword          *)
(* matching, embedding similarity, combined scoring, sorting and            *)
(* truncation.                                                              *)
(*                                                                          *)
(* Python values are tagged records: [t |-> "str", v |-> <<chars>>] and so  *)
(* on.  A str is the sequence of its characters, so that lower(), the `in`  *)
(* substring test, strip(), replace(), split() and int() are computed as    *)
(* Python computes them.  A dict is the ordered sequence of its             *)
(* <<key, value>> pairs (insertion order, as in Python and BSON); keys are  *)
(* written as TLA+ strings and KeyText gives their characters.              *)
(* Numbers with a fractional part are kept as exact integers in a fixed     *)
(* unit (1e-4 for similarities and combined scores) or as exact fractions   *)
(* (the keyword percentage).                                                *)
(***************************************************************************)
EXTENDS Integers, Sequences, FiniteSets, TLC

VARIABLES
    store,      \* the documents of the "compare" collection, in natural order
    embedding,  \* SentenceTransformer.encode: the vector of every text seen
    request,    \* arguments of the last get_recommendations call, or NoRequest
    outcome,    \* what that call returned or raised, with its call counts
    ncalls,     \* number of get_recommendations calls made so far
    fn,         \* the pure function last applied on its own (FnSpec)
    fnArgs,     \* its arguments
    fnResult,   \* its result
    route       \* the service: environment, phase, handles, last response

vars ==
    <<store, embedding, request, outcome, ncalls, fn, fnArgs, fnResult, route>>

----------------------------------------------------------------------------
(* Python values *)

\* Before the first call there is no request and no outcome; fn names the
\* function applied on its own, if any.
NoRequest == [none |-> TRUE]
NoOutcome == [none |-> TRUE]
Idle == "idle"
NoResponse == [status |-> 0]
NoFault == [at |-> "none", k |-> 0]

\* The service before it is started, with the variables of env set.
Stopped(env) ==
    [env |-> env, phase |-> "stopped", clients_open |-> 0, model_loads |-> 0,
     response |-> NoResponse, fault |-> NoFault]

PyNone == [t |-> "none"]
PyBool(b) == [t |-> "bool", v |-> b]
PyInt(n) == [t |-> "int", v |-> n]
PyStr(s) == [t |-> "str", v |-> s]
PyList(s) == [t |-> "list", v |-> s]
PyDict(s) == [t |-> "dict", v |-> s]

\* An exception propagating out of a call.
Raise(kind) == [t |-> "raise", v |-> kind]
IsRaise(x) == x.t = "raise"

\* A value returned normally.
Ok(x) == [t |-> "ok", v |-> x]

isinstance(x, type) == x.t = type

\* bool(x): Python truthiness.
truthy(x) ==
    CASE x.t = "none" -> FALSE
      [] x.t = "bool" -> x.v
      [] x.t = "int" -> x.v # 0
      [] OTHER -> x.v # <<>>

\* `key in d` for a dict d.
has_key(d, key) == \E i \in 1..Len(d.v) : d.v[i][1] = key

\* d.get(key, default)
get(d, key, default) ==
    IF has_key(d, key)
    THEN d.v[CHOOSE i \in 1..Len(d.v) : d.v[i][1] = key][2]
    ELSE default

\* d[key] = value on a dict: replaces in place or appends at the end.
set_item(d, key, value) ==
    IF has_key(d, key)
    THEN PyDict([i \in 1..Len(d.v) |->
                    IF d.v[i][1] = key THEN <<key, value>> ELSE d.v[i]])
    ELSE PyDict(Append(d.v, <<key, value>>))

----------------------------------------------------------------------------
(* Python str operations on character sequences *)

UpperChars == <<"A","B","C","D","E","F","G","H","I","J","K","L","M","N","O","P","Q","R","S","T","U","V","W","X","Y","Z">>
LowerChars == <<"a","b","c","d","e","f","g","h","i","j","k","l","m","n","o","p","q","r","s","t","u","v","w","x","y","z">>
Digits == <<"0","1","2","3","4","5","6","7","8","9">>
Whitespace == {" ", "\t", "\n", "\r"}

\* c.lower() for one character: a table lookup.
LowerMap == [i \in 1..Len(UpperChars) |-> LowerChars[i]]
UpperIndex == [c \in {UpperChars[i] : i \in 1..Len(UpperChars)} |->
                  CHOOSE i \in 1..Len(UpperChars) : UpperChars[i] = c]
LowerChar(c) == IF c \in DOMAIN UpperIndex THEN LowerMap[UpperIndex[c]] ELSE c

\* s.lower()
lower(s) == [i \in 1..Len(s) |-> LowerChar(s[i])] \o <<>>

\* p in s  (substring test; the empty string is in every string)
contains(p, s) ==
    \E i \in 0..(Len(s) - Len(p)) : \A j \in 1..Len(p) : s[i + j] = p[j]

\* any(kw in text for kw in keywords)
any_in(keywords, text) ==
    \E k \in 1..Len(keywords) : contains(keywords[k], text)

\* s.strip()
RECURSIVE lstrip(_)
lstrip(s) ==
    IF s # <<>> /\ Head(s) \in Whitespace THEN lstrip(Tail(s)) ELSE s

RECURSIVE rstrip(_)
rstrip(s) ==
    IF s # <<>> /\ s[Len(s)] \in Whitespace
    THEN rstrip(SubSeq(s, 1, Len(s) - 1))
    ELSE s

strip(s) == rstrip(lstrip(s))

\* s.replace(c, '') for a single character c
remove_char(s, c) == SelectSeq(s, LAMBDA x : x # c)

\* s.split(c): the pieces between the occurrences of the character c
RECURSIVE split(_, _)
split(s, c) ==
    IF \E i \in 1..Len(s) : s[i] = c
    THEN LET i == CHOOSE k \in 1..Len(s) :
                      s[k] = c /\ \A m \in 1..(k - 1) : s[m] # c
         IN  <<SubSeq(s, 1, i - 1)>> \o split(SubSeq(s, i + 1, Len(s)), c)
    ELSE <<s>>

\* sep.join(parts)
RECURSIVE join(_, _)
join(sep, parts) ==
    IF parts = <<>> THEN <<>>
    ELSE IF Len(parts) = 1 THEN parts[1]
    ELSE parts[1] \o sep \o join(sep, Tail(parts))

DigitIndex == [c \in {Digits[i] : i \in 1..Len(Digits)} |->
                  CHOOSE i \in 1..Len(Digits) : Digits[i] = c]
IsDigit(c) == c \in DOMAIN DigitIndex
DigitValue(c) == DigitIndex[c] - 1

RECURSIVE DigitsValue(_)
DigitsValue(s) ==
    IF s = <<>> THEN 0
    ELSE 10 * DigitsValue(SubSeq(s, 1, Len(s) - 1)) + DigitValue(s[Len(s)])

\* int(s) for a str s: surrounding whitespace is ignored, one leading sign is
\* allowed, the rest must be decimal digits; anything else is a ValueError.
int(s) ==
    LET body == strip(s)
        signed == body # <<>> /\ Head(body) \in {"+", "-"}
        digits == IF signed THEN Tail(body) ELSE body
    IN  IF digits = <<>> \/ \E i \in 1..Len(digits) : ~IsDigit(digits[i])
        THEN Raise("ValueError")
        ELSE PyInt(IF signed /\ Head(body) = "-"
                   THEN 0 - DigitsValue(digits)
                   ELSE DigitsValue(digits))

\* str(n) for an int n
RECURSIVE NatText(_)
NatText(n) ==
    IF n < 10 THEN <<Digits[n + 1]>>
    ELSE NatText(n \div 10) \o <<Digits[(n % 10) + 1]>>

IntText(n) == IF n < 0 THEN <<"-">> \o NatText(0 - n) ELSE NatText(n)

----------------------------------------------------------------------------
(* Coverage Extractor *)

\* The characters of the dict keys that end up in text (str(key)).
KeyText(k) ==
    CASE k = "inPatient" -> <<"i","n","P","a","t","i","e","n","t">>
      [] k = "room_rent" -> <<"r","o","o","m","_","r","e","n","t">>
      [] k = "limit" -> <<"l","i","m","i","t">>
      [] k = "dayCare" -> <<"d","a","y","C","a","r","e">>
      [] k = "ambulance" -> <<"a","m","b","u","l","a","n","c","e">>
      [] k = "benefits" -> <<"b","e","n","e","f","i","t","s">>
      [] k = "name" -> <<"n","a","m","e">>
      [] OTHER -> k

\* str(x) as used by f-strings and ', '.join(str(x) ...).  The repr of a
\* nested list or dict is not needed by any document considered here.
py_str(x) ==
    CASE x.t = "str" -> x.v
      [] x.t = "int" -> IntText(x.v)
      [] x.t = "bool" -> IF x.v THEN <<"T","r","u","e">> ELSE <<"F","a","l","s","e">>
      [] x.t = "none" -> <<"N","o","n","e">>

\* dict(items): later pairs overwrite the value of an earlier equal key, the
\* key keeps the position of its first insertion.
RECURSIVE dict_of(_, _)
dict_of(acc, items) ==
    IF items = <<>> THEN acc
    ELSE dict_of(set_item(acc, Head(items)[1], Head(items)[2]), Tail(items))

\* The key without the path that leads to it (a variant that C25 must tell
\* apart).
new_key_without_path(parent_key, sep, k) == KeyText(k)

\* f"{parent_key}{sep}{k}" if parent_key else k
new_key(parent_key, sep, k) ==
    IF parent_key # <<>> THEN parent_key \o sep \o KeyText(k) ELSE KeyText(k)

\* ', '.join(str(x) for x in v)
joined_strs(v) == join(<<","," ">>, [i \in 1..Len(v) |-> py_str(v[i])])

\* PolicyRecommender.flatten_dict, with the loops it runs: flatten_pairs is
\* the loop over d.items(), flatten_each the loop over a list of dicts; both
\* give the items collected.
RECURSIVE flatten_dict(_, _, _)
RECURSIVE flatten_pairs(_, _, _)
RECURSIVE flatten_each(_, _, _)
flatten_each(dicts, key, sep) ==
    IF dicts = <<>> THEN <<>>
    ELSE flatten_dict(Head(dicts), key, sep).v \o flatten_each(Tail(dicts), key, sep)

flatten_value(key, v, sep) ==
    IF isinstance(v, "dict") THEN flatten_dict(v, key, sep).v
    ELSE IF isinstance(v, "list")
    THEN IF \A i \in 1..Len(v.v) : isinstance(v.v[i], "dict")
         THEN flatten_each(v.v, key, sep)
         ELSE << <<key, PyStr(joined_strs(v.v))>> >>
    ELSE << <<key, v>> >>

flatten_pairs(pairs, parent_key, sep) ==
    IF pairs = <<>> THEN <<>>
    ELSE flatten_value(new_key(parent_key, sep, Head(pairs)[1]), Head(pairs)[2], sep)
             \o flatten_pairs(Tail(pairs), parent_key, sep)

flatten_dict(d, parent_key, sep) ==
    dict_of(PyDict(<<>>), flatten_pairs(d.v, parent_key, sep))

replace_char(s, a, b) == [i \in 1..Len(s) |-> IF s[i] = a THEN b ELSE s[i]]

\* Every dict entry selected, whatever its flag (a variant that C24 must tell
\* apart).
all_entries(policy, field, flag) ==
    IF has_key(policy, field) /\ isinstance(get(policy, field, PyNone), "list")
    THEN SelectSeq(get(policy, field, PyNone).v, LAMBDA e : isinstance(e, "dict"))
    ELSE <<>>

\* policy[field] filtered to the dict entries whose flag is truthy, when the
\* field is present and a list.
selected_entries(policy, field, flag) ==
    IF has_key(policy, field) /\ isinstance(get(policy, field, PyNone), "list")
    THEN SelectSeq(get(policy, field, PyNone).v,
                   LAMBDA e : isinstance(e, "dict") /\ truthy(get(e, flag, PyNone)))
    ELSE <<>>

\* f"{key.replace('_', ' ')}: {value}" for every item of the flattened dict.
feature_strings(flattened) ==
    [i \in 1..Len(flattened) |->
        replace_char(flattened[i][1], "_", " ") \o <<":"," ">> \o py_str(flattened[i][2])]

\* The "key: value" strings of the flattened coverage object.
coverage_features(policy) ==
    IF has_key(policy, "coverage")
       /\ isinstance(get(policy, "coverage", PyNone), "dict")
    THEN feature_strings(flatten_dict(get(policy, "coverage", PyNone), <<>>,
                                      <<" ">>).v)
    ELSE <<>>

\* f"{e.get(key, '')}"
text_field(e, key) == py_str(get(e, key, PyStr(<<>>)))

special_coverage_text(sc) ==
    text_field(sc, "diseaseName") \o <<" ">> \o text_field(sc, "details") \o <<" ">>
        \o text_field(sc, "limit")

addon_text(addon) == text_field(addon, "name") \o <<" ">> \o text_field(addon, "details")

\* The record extract_coverage_details returns, text included.
coverage_data_of(features, special_coverages, addons) ==
    [text |-> join(<<" ">>,
                   features
                   \o [i \in 1..Len(special_coverages) |->
                          special_coverage_text(special_coverages[i])]
                   \o [i \in 1..Len(addons) |-> addon_text(addons[i])]),
     features |-> features,
     special_coverages |-> special_coverages,
     addons |-> addons]

\* PolicyRecommender.extract_coverage_details
extract_coverage_details(policy) ==
    coverage_data_of(
        coverage_features(policy),
        selected_entries(policy, "specialCoverages", "isCovered"),
        selected_entries(policy, "addOns_OptionalBenefits", "isAvailable"))

----------------------------------------------------------------------------
(* Coverage Matcher: keyword score *)

\* keyword_map of keyword_matching, in its insertion order.
keyword_map == <<
    <<"hiv", <<<<"h","i","v">>, <<"a","i","d","s">>, <<"h","i","v","/","a","i","d","s">>, <<"s","t","d">>>> >>,
    <<"cancer", <<<<"c","a","n","c","e","r">>, <<"o","n","c","o","l","o","g","y">>, <<"c","h","e","m","o","t","h","e","r","a","p","y">>, <<"m","a","l","i","g","n","a","n","c","y">>>> >>,
    <<"mental", <<<<"m","e","n","t","a","l">>, <<"p","s","y","c","h","i","a","t","r","i","c">>, <<"p","s","y","c","h","o","l","o","g","y">>>> >>,
    <<"maternity", <<<<"m","a","t","e","r","n","i","t","y">>, <<"p","r","e","g","n","a","n","c","y">>, <<"c","h","i","l","d","b","i","r","t","h">>, <<"d","e","l","i","v","e","r","y">>>> >>,
    <<"hospitalization", <<<<"h","o","s","p","i","t","a","l","i","z","a","t","i","o","n">>, <<"i","n","p","a","t","i","e","n","t">>, <<"h","o","s","p","i","t","a","l">>>> >>,
    <<"critical illness", <<<<"c","r","i","t","i","c","a","l"," ","i","l","l","n","e","s","s">>, <<"c","r","i","t","i","c","a","l"," ","d","i","s","e","a","s","e">>>> >>,
    <<"accident", <<<<"a","c","c","i","d","e","n","t">>, <<"a","c","c","i","d","e","n","t","a","l">>, <<"i","n","j","u","r","y">>>> >>,
    <<"ambulance", <<<<"a","m","b","u","l","a","n","c","e">>, <<"e","m","e","r","g","e","n","c","y"," ","t","r","a","n","s","p","o","r","t">>>> >>,
    <<"daycare", <<<<"d","a","y"," ","c","a","r","e">>, <<"d","a","y","c","a","r","e">>, <<"d","a","y"," ","t","r","e","a","t","m","e","n","t">>>> >>,
    <<"domiciliary", <<<<"d","o","m","i","c","i","l","i","a","r","y">>, <<"h","o","m","e"," ","t","r","e","a","t","m","e","n","t">>>> >>,
    <<"cashless", <<<<"c","a","s","h","l","e","s","s">>, <<"n","e","t","w","o","r","k"," ","h","o","s","p","i","t","a","l">>>> >>,
    <<"pre hospitalization", <<<<"p","r","e"," ","h","o","s","p","i","t","a","l","i","z","a","t","i","o","n">>, <<"p","r","e","-","h","o","s","p","i","t","a","l","i","z","a","t","i","o","n">>>> >>,
    <<"post hospitalization", <<<<"p","o","s","t"," ","h","o","s","p","i","t","a","l","i","z","a","t","i","o","n">>, <<"p","o","s","t","-","h","o","s","p","i","t","a","l","i","z","a","t","i","o","n">>>> >> >>

\* The categories the user mentioned: `any(kw in user_req_lower ...)`.
requested_categories(user_req_lower) ==
    SelectSeq(keyword_map, LAMBDA entry : any_in(entry[2], user_req_lower))

\* The categories of the policy text, requested or not (a variant that C4
\* must tell apart).
matched_among_all(requested, coverage_text_lower) ==
    SelectSeq(keyword_map, LAMBDA entry : any_in(entry[2], coverage_text_lower))

\* Among those, the categories the policy text covers.
matched_categories(requested, coverage_text_lower) ==
    SelectSeq(requested, LAMBDA entry : any_in(entry[2], coverage_text_lower))

\* (keyword_score / total_keywords * 100) if total_keywords > 0 else 0,
\* as the exact fraction num/den.
match_percentage(keyword_score, total_keywords) ==
    IF total_keywords > 0
    THEN [num |-> keyword_score * 100, den |-> total_keywords]
    ELSE [num |-> 0, den |-> 1]

\* The dict keyword_matching returns, for the requested and the matched
\* categories.
keyword_result(requested, matched) ==
    [matched_features |-> [i \in 1..Len(matched) |-> matched[i][1]],
     keyword_score |-> Len(matched),
     total_keywords |-> Len(requested),
     match_percentage |-> match_percentage(Len(matched), Len(requested))]

keyword_result_for(requested, coverage_text_lower) ==
    keyword_result(requested, matched_categories(requested, coverage_text_lower))

\* keyword_matching without lower() (a variant that C10 must tell apart).
keyword_matching_as_written(user_requirement, coverage_data) ==
    keyword_result_for(requested_categories(user_requirement), coverage_data.text)

\* PolicyRecommender.keyword_matching
keyword_matching(user_requirement, coverage_data) ==
    keyword_result_for(requested_categories(lower(user_requirement)),
                       lower(coverage_data.text))

----------------------------------------------------------------------------
(* Summary Generator *)

\* The two markers of the summary, each one character of the text.
CheckMark == "U+2713"
CrossMark == "U+2717"

\* coverage_checks of generate_coverage_summary, in its insertion order.
coverage_checks == <<
    <<<<"H","I","V","/","A","I","D","S">>, <<<<"h","i","v">>, <<"a","i","d","s">>>> >>,
    <<<<"C","a","n","c","e","r">>, <<<<"c","a","n","c","e","r">>, <<"o","n","c","o","l","o","g","y">>, <<"c","h","e","m","o","t","h","e","r","a","p","y">>>> >>,
    <<<<"M","e","n","t","a","l"," ","I","l","l","n","e","s","s">>, <<<<"m","e","n","t","a","l">>, <<"p","s","y","c","h","i","a","t","r","i","c">>>> >>,
    <<<<"M","a","t","e","r","n","i","t","y">>, <<<<"m","a","t","e","r","n","i","t","y">>, <<"p","r","e","g","n","a","n","c","y">>>> >>,
    <<<<"C","r","i","t","i","c","a","l"," ","I","l","l","n","e","s","s">>, <<<<"c","r","i","t","i","c","a","l"," ","i","l","l","n","e","s","s">>>> >>,
    <<<<"A","c","c","i","d","e","n","t">>, <<<<"a","c","c","i","d","e","n","t">>, <<"a","c","c","i","d","e","n","t","a","l">>>> >>,
    <<<<"H","o","s","p","i","t","a","l","i","z","a","t","i","o","n">>, <<<<"h","o","s","p","i","t","a","l","i","z","a","t","i","o","n">>, <<"i","n","p","a","t","i","e","n","t">>>> >> >>

\* The text returned when the user asked for no headline category.
generic_summary ==
    <<"T","h","i","s"," ","p","o","l","i","c","y"," ","p","r","o","v","i","d","e","s"," ","s","t","a","n","d","a","r","d"," ","h","e","a","l","t","h"," ","i","n","s","u","r","a","n","c","e"," ","c","o","v","e","r","a","g","e"," ","i","n","c","l","u","d","i","n","g"," ","i","n","-","p","a","t","i","e","n","t"," ","h","o","s","p","i","t","a","l","i","z","a","t","i","o","n",","," ","p","r","e"," ","a","n","d"," ","p","o","s","t"," ","h","o","s","p","i","t","a","l","i","z","a","t","i","o","n"," ","e","x","p","e","n","s","e","s",","," ","d","a","y"," ","c","a","r","e"," ","p","r","o","c","e","d","u","r","e","s",","," ","a","n","d"," ","a","m","b","u","l","a","n","c","e"," ","s","e","r","v","i","c","e","s","."," ">>
    \o <<"H","o","w","e","v","e","r",","," ","i","t"," ","m","a","y"," ","n","o","t"," ","s","p","e","c","i","f","i","c","a","l","l","y"," ","c","o","v","e","r"," ","t","h","e"," ","e","x","a","c","t"," ","f","e","a","t","u","r","e","s"," ","y","o","u"," ","m","e","n","t","i","o","n","e","d","."," ">>
    \o <<"P","l","e","a","s","e"," ","r","e","v","i","e","w"," ","t","h","e"," ","p","o","l","i","c","y"," ","d","e","t","a","i","l","s"," ","o","r"," ","c","o","n","s","i","d","e","r"," ","e","x","p","l","o","r","i","n","g"," ","r","i","d","e","r","s"," ","a","n","d"," ","o","p","t","i","o","n","a","l"," ","a","d","d","-","o","n","s"," ","t","o"," ","c","u","s","t","o","m","i","z","e"," ","y","o","u","r"," ","c","o","v","e","r","a","g","e",".">>

\* `limit = sc.get('limit', ''); if limit: details = limit`
limit_of(sc) ==
    IF truthy(get(sc, "limit", PyStr(<<>>)))
    THEN get(sc, "limit", PyStr(<<>>)) ELSE PyNone

\* The loop over the special coverages that looks for the details of a
\* covered category: Ok(details), PyNone standing for no details, or the
\* exception of a diseaseName without lower().
RECURSIVE find_details(_, _)
find_details(special_coverages, keywords) ==
    IF special_coverages = <<>> THEN Ok(PyNone)
    ELSE IF ~isinstance(get(Head(special_coverages), "diseaseName", PyStr(<<>>)),
                        "str")
    THEN Raise("AttributeError")
    ELSE IF any_in(keywords,
                   lower(get(Head(special_coverages), "diseaseName",
                             PyStr(<<>>)).v))
    THEN Ok(limit_of(Head(special_coverages)))
    ELSE find_details(Tail(special_coverages), keywords)

\* The sentence for a covered category.
covered_response(coverage_name, details) ==
    IF truthy(details)
    THEN <<CheckMark>> \o <<" ","Y","e","s",","," ">> \o coverage_name \o <<" ","i","s"," ","c","o","v","e","r","e","d"," ","(">>
             \o py_str(details) \o <<")">>
    ELSE <<CheckMark>> \o <<" ","Y","e","s",","," ">> \o coverage_name \o <<" ","i","s"," ","c","o","v","e","r","e","d">>

add_response(acc, coverage_name, details) ==
    IF IsRaise(details) THEN [acc EXCEPT !.raised = details]
    ELSE [acc EXCEPT !.coverage_responses =
              Append(@, covered_response(coverage_name, details.v))]

\* One turn of the loop over coverage_checks.
check_coverage(acc, check, user_req_lower, coverage_text_lower, special_coverages) ==
    IF ~any_in(check[2], user_req_lower) THEN acc
    ELSE IF any_in(check[2], coverage_text_lower)
    THEN add_response(acc, check[1], find_details(special_coverages, check[2]))
    ELSE [acc EXCEPT !.not_covered = Append(@, check[1])]

RECURSIVE classify(_, _, _, _, _)
classify(checks, acc, user_req_lower, coverage_text_lower, special_coverages) ==
    IF checks = <<>> \/ acc.raised # PyNone THEN acc
    ELSE classify(Tail(checks),
                  check_coverage(acc, Head(checks), user_req_lower,
                                 coverage_text_lower, special_coverages),
                  user_req_lower, coverage_text_lower, special_coverages)

\* Every covered item mentioned, not only the first three (a variant that
\* C23 must tell apart).
covered_part_all(coverage_responses) ==
    IF coverage_responses = <<>> THEN <<>>
    ELSE join(<<" ">>, coverage_responses) \o <<"."," ">>

\* "Add covered items"
covered_part(coverage_responses) ==
    IF coverage_responses = <<>> THEN <<>>
    ELSE IF Len(coverage_responses) = 1 THEN coverage_responses[1] \o <<"."," ">>
    ELSE IF Len(coverage_responses) = 2
    THEN coverage_responses[1] \o <<" ">> \o coverage_responses[2] \o <<"."," ">>
    ELSE join(<<" ">>, SubSeq(coverage_responses, 1, 3)) \o <<"."," ">>

\* "Add not covered items"
not_covered_part(not_covered) ==
    IF not_covered = <<>> THEN <<>>
    ELSE (IF Len(not_covered) = 1
          THEN <<CrossMark>> \o <<" ","H","o","w","e","v","e","r",","," ">> \o not_covered[1]
                   \o <<" ","i","s"," ","n","o","t"," ","c","o","v","e","r","e","d"," ","u","n","d","e","r"," ","t","h","e"," ","b","a","s","e"," ","p","o","l","i","c","y","."," ">>
          ELSE <<CrossMark>> \o <<" ","H","o","w","e","v","e","r",","," ">>
                   \o join(<<","," ">>, SubSeq(not_covered, 1, Len(not_covered) - 1))
                   \o <<" ","a","n","d"," ">> \o not_covered[Len(not_covered)]
                   \o <<" ","a","r","e"," ","n","o","t"," ","c","o","v","e","r","e","d"," ","u","n","d","e","r"," ","t","h","e"," ","b","a","s","e"," ","p","o","l","i","c","y","."," ">>)
         \o <<"Y","o","u"," ","m","a","y"," ","e","x","p","l","o","r","e"," ","o","p","t","i","o","n","a","l"," ","r","i","d","e","r","s"," ","a","n","d"," ","a","d","d","-","o","n","s"," ","t","o"," ","e","n","h","a","n","c","e"," ","y","o","u","r"," ","c","o","v","e","r","a","g","e"," ","f","o","r"," ","t","h","e","s","e"," ","f","e","a","t","u","r","e","s",".">>

\* "Add general policy info": the names of the first two add-ons; joining a
\* name that is no str is a TypeError.
addon_part(addons) ==
    IF addons = <<>> THEN Ok(<<>>)
    ELSE IF \E i \in 1..Len(addons) :
                i <= 2 /\ ~isinstance(get(addons[i], "name", PyStr(<<>>)), "str")
    THEN Raise("TypeError")
    ELSE Ok(<<" ","A","v","a","i","l","a","b","l","e"," ","a","d","d","-","o","n","s"," ","i","n","c","l","u","d","e"," ">>
                \o join(<<","," ">>,
                        [i \in 1..(IF Len(addons) < 2 THEN Len(addons) ELSE 2) |->
                            get(addons[i], "name", PyStr(<<>>)).v])
                \o <<".">>)

with_addons(summary, addon_names) ==
    IF IsRaise(addon_names) THEN addon_names ELSE Ok(summary \o addon_names.v)

\* The generic text whenever nothing asked for is covered (a variant that
\* C22 must tell apart).
build_summary_generic_if_uncovered(classified, addons) ==
    IF classified.raised # PyNone THEN classified.raised
    ELSE IF classified.coverage_responses = <<>>
    THEN Ok(generic_summary)
    ELSE with_addons(covered_part(classified.coverage_responses)
                         \o not_covered_part(classified.not_covered),
                     addon_part(addons))

\* "Build summary"
build_summary(classified, addons) ==
    IF classified.raised # PyNone THEN classified.raised
    ELSE IF classified.coverage_responses = <<>> /\ classified.not_covered = <<>>
    THEN Ok(generic_summary)
    ELSE with_addons(covered_part(classified.coverage_responses)
                         \o not_covered_part(classified.not_covered),
                     addon_part(addons))

\* PolicyRecommender.generate_coverage_summary: Ok(summary) or the exception
\* raised.
generate_coverage_summary(user_requirement, coverage_data, keyword_match) ==
    build_summary(
        classify(coverage_checks,
                 [coverage_responses |-> <<>>, not_covered |-> <<>>,
                  raised |-> PyNone],
                 lower(user_requirement), lower(coverage_data.text),
                 coverage_data.special_coverages),
        coverage_data.addons)

----------------------------------------------------------------------------
(* Premium Resolver *)

\* The upper end parse_age_bracket gives an "N+" bracket.
OpenEndedMaxAge == 999

\* (min_age, 999) for the int() of an "N+" bracket.
open_ended(min_age) ==
    IF IsRaise(min_age) THEN min_age ELSE Ok(<<min_age.v, OpenEndedMaxAge>>)

\* (int(parts[0]), int(parts[1])) of an "A-B" bracket.
closed_range(lo, hi) ==
    IF IsRaise(lo) THEN lo
    ELSE IF IsRaise(hi) THEN hi
    ELSE Ok(<<lo.v, hi.v>>)

range_of_parts(parts) == closed_range(int(strip(parts[1])), int(strip(parts[2])))

\* (age, age) of a plain "N" bracket.
single_age(age) == IF IsRaise(age) THEN age ELSE Ok(<<age.v, age.v>>)

\* PolicyRecommender.parse_age_bracket: Ok(<<min_age, max_age>>) or the
\* exception raised.  A value that is no str fails on `in`, replace, split
\* or strip.
parse_age_bracket(age_string) ==
    IF ~isinstance(age_string, "str")
    THEN Raise(IF age_string.t \in {"list", "dict"}
               THEN "AttributeError" ELSE "TypeError")
    ELSE IF contains(<<"+">>, age_string.v)
    THEN open_ended(int(strip(remove_char(age_string.v, "+"))))
    ELSE IF contains(<<"-">>, age_string.v)
    THEN range_of_parts(split(age_string.v, "-"))
    ELSE single_age(int(strip(age_string.v)))

\* min_age <= user_age <= max_age
in_range(parsed, user_age) ==
    ~IsRaise(parsed) /\ parsed.v[1] <= user_age /\ user_age <= parsed.v[2]

\* The age test of find_applicable_premium: a bracket that does not parse
\* matches nothing (the bare except around it).
age_in_bracket(age_string, user_age) ==
    in_range(parse_age_bracket(age_string), user_age)

\* `for x in value`: the elements Python iterates over, or TypeError.
iterate(value) ==
    CASE value.t = "list" -> Ok(value.v)
      [] value.t = "str" -> Ok([i \in 1..Len(value.v) |-> PyStr(<<value.v[i]>>)])
      [] value.t = "dict" ->
            Ok([i \in 1..Len(value.v) |-> PyStr(KeyText(value.v[i][1]))])
      [] OTHER -> Raise("TypeError")

\* What two parts of a loop append to best_matches one after the other, or
\* the first exception.
chain(first, rest) ==
    IF IsRaise(first) THEN first
    ELSE IF IsRaise(rest) THEN rest
    ELSE Ok(first.v \o rest.v)

\* city.lower() == user_city.lower() or user_city.lower() in city.lower()
city_matches(city, user_city) ==
    LET city_lower == lower(city)
        user_city_lower == lower(user_city)
    IN  \/ city_lower = user_city_lower
        \/ contains(user_city_lower, city_lower)

\* The city loop of find_applicable_premium: Ok(city_found), or the
\* exception of the first entry without lower() met before a match.
RECURSIVE city_scan(_, _)
city_scan(cities, user_city) ==
    IF cities = <<>> THEN Ok(FALSE)
    ELSE IF ~isinstance(Head(cities), "str") THEN Raise("AttributeError")
    ELSE IF city_matches(Head(cities).v, user_city) THEN Ok(TRUE)
    ELSE city_scan(Tail(cities), user_city)

scan_cities(cities, user_city) ==
    IF IsRaise(cities) THEN cities ELSE city_scan(cities.v, user_city)

city_found(zone_data, user_city) ==
    scan_cities(iterate(get(zone_data, "cities", PyList(<<>>))), user_city)

\* A comparison of the types that ignores the letter case (a variant that
\* C16 must tell apart).
type_matches_any_case(option_type, policy_category) ==
    /\ isinstance(option_type, "str")
    /\ lower(option_type.v) = lower(policy_category)

\* option_type != policy_category: equal only as the same str.
type_matches(option_type, policy_category) == option_type = PyStr(policy_category)

\* The entry appended to best_matches.
match_entry(bracket, sum_insured, zone_name, composition) ==
    PyDict(<< <<"premium_amount", get(bracket, "premiumAmount", PyInt(0))>>,
              <<"sum_insured", sum_insured>>,
              <<"zone", zone_name>>,
              <<"composition", composition>>,
              <<"age_bracket", get(bracket, "age", PyStr(<<>>))>> >>)

\* A bracket without a premiumAmount skipped (a variant that C29 must tell
\* apart).
bracket_matches_priced_only(bracket, user_age, sum_insured, zone_name, composition) ==
    IF isinstance(bracket, "dict")
       /\ has_key(bracket, "premiumAmount")
       /\ age_in_bracket(get(bracket, "age", PyStr(<<>>)), user_age)
    THEN Ok(<<match_entry(bracket, sum_insured, zone_name, composition)>>)
    ELSE Ok(<<>>)

\* One turn of `for bracket in age_brackets`.
bracket_matches(bracket, user_age, sum_insured, zone_name, composition) ==
    IF isinstance(bracket, "dict")
       /\ age_in_bracket(get(bracket, "age", PyStr(<<>>)), user_age)
    THEN Ok(<<match_entry(bracket, sum_insured, zone_name, composition)>>)
    ELSE Ok(<<>>)

RECURSIVE bracket_loop(_, _, _, _, _)
bracket_loop(brackets, user_age, sum_insured, zone_name, composition) ==
    IF brackets = <<>> THEN Ok(<<>>)
    ELSE chain(bracket_matches(Head(brackets), user_age, sum_insured, zone_name,
                               composition),
               bracket_loop(Tail(brackets), user_age, sum_insured, zone_name,
                            composition))

\* `for bracket in age_brackets`
each_bracket(age_brackets, user_age, sum_insured, zone_name, composition) ==
    IF IsRaise(age_brackets) THEN age_brackets
    ELSE bracket_loop(age_brackets.v, user_age, sum_insured, zone_name, composition)

\* One turn of `for option in premium_options`.
option_matches(option, user_age, policy_category, sum_insured, zone_name) ==
    IF ~isinstance(option, "dict") THEN Ok(<<>>)
    ELSE IF ~type_matches(get(option, "type", PyStr(<<>>)), policy_category)
    THEN Ok(<<>>)
    ELSE each_bracket(iterate(get(option, "ageBrackets", PyList(<<>>))),
                      user_age, sum_insured, zone_name,
                      get(option, "composition", PyStr(<<>>)))

RECURSIVE option_loop(_, _, _, _, _)
option_loop(options, user_age, policy_category, sum_insured, zone_name) ==
    IF options = <<>> THEN Ok(<<>>)
    ELSE chain(option_matches(Head(options), user_age, policy_category,
                              sum_insured, zone_name),
               option_loop(Tail(options), user_age, policy_category, sum_insured,
                           zone_name))

\* `for option in premium_options`
each_option(premium_options, user_age, policy_category, sum_insured, zone_name) ==
    IF IsRaise(premium_options) THEN premium_options
    ELSE option_loop(premium_options.v, user_age, policy_category, sum_insured,
                     zone_name)

\* One turn of `for chart_item in premium_chart`.
chart_matches(chart_item, user_age, policy_category, zone_name) ==
    IF ~isinstance(chart_item, "dict") THEN Ok(<<>>)
    ELSE each_option(iterate(get(chart_item, "premiumOptions", PyList(<<>>))),
                     user_age, policy_category,
                     get(chart_item, "sumInsured", PyInt(0)), zone_name)

RECURSIVE chart_loop(_, _, _, _)
chart_loop(chart, user_age, policy_category, zone_name) ==
    IF chart = <<>> THEN Ok(<<>>)
    ELSE chain(chart_matches(Head(chart), user_age, policy_category, zone_name),
               chart_loop(Tail(chart), user_age, policy_category, zone_name))

\* `for chart_item in premium_chart`
each_chart(premium_chart, user_age, policy_category, zone_name) ==
    IF IsRaise(premium_chart) THEN premium_chart
    ELSE chart_loop(premium_chart.v, user_age, policy_category, zone_name)

\* The matches of a zone, given the outcome of its city loop.
zone_chart_matches(found, zone_data, user_age, policy_category) ==
    IF IsRaise(found) THEN found
    ELSE IF ~found.v THEN Ok(<<>>)
    ELSE each_chart(iterate(get(zone_data, "premiumChart", PyList(<<>>))),
                    user_age, policy_category,
                    get(zone_data, "zoneName", PyStr(<<"U","n","k","n","o","w","n">>)))

\* One turn of `for zone_data in premiums`.
zone_matches(zone_data, user_age, user_city, policy_category) ==
    IF ~isinstance(zone_data, "dict") THEN Ok(<<>>)
    ELSE zone_chart_matches(city_found(zone_data, user_city), zone_data,
                            user_age, policy_category)

\* `for zone_data in premiums`
RECURSIVE zone_loop(_, _, _, _)
zone_loop(premiums, user_age, user_city, policy_category) ==
    IF premiums = <<>> THEN Ok(<<>>)
    ELSE chain(zone_matches(Head(premiums), user_age, user_city, policy_category),
               zone_loop(Tail(premiums), user_age, user_city, policy_category))

\* The value of a Python number (a bool counts as 0 or 1).
is_number(x) == x.t \in {"int", "bool"}
number(x) == IF x.t = "bool" THEN (IF x.v THEN 1 ELSE 0) ELSE x.v

\* The comparison the other way round (a variant that C2 must tell apart).
py_le_reversed(a, b) ==
    IF is_number(a) /\ is_number(b) THEN Ok(number(a) >= number(b))
    ELSE Raise("TypeError")

\* a <= b on Python values: Ok(boolean), or TypeError when either is no
\* number (an order between two str values is not needed here).
py_le(a, b) ==
    IF is_number(a) /\ is_number(b) THEN Ok(number(a) <= number(b))
    ELSE Raise("TypeError")

premium_amount_of(info) == get(info, "premium_amount", PyNone)

\* The first match in place of the cheapest (a variant that C11 must tell
\* apart).
first_match(best_matches) == best_matches[1]

\* The least premium put into the first match (a variant that C9 must tell
\* apart).
least_premium_in_first(best_matches) ==
    IF \E i \in 1..Len(best_matches) :
           ~is_number(premium_amount_of(best_matches[i]))
    THEN Raise("TypeError")
    ELSE set_item(best_matches[1], "premium_amount",
                  premium_amount_of(best_matches[
                      CHOOSE i \in 1..Len(best_matches) :
                          \A j \in 1..Len(best_matches) :
                              number(premium_amount_of(best_matches[i]))
                                  <= number(premium_amount_of(best_matches[j]))]))

\* min(best_matches, key=lambda x: x['premium_amount']): the first entry
\* with the least key; comparing keys that are no numbers is a TypeError.
min_by_premium(best_matches) ==
    IF Len(best_matches) = 1 THEN best_matches[1]
    ELSE IF \E i \in 1..Len(best_matches) :
                ~is_number(premium_amount_of(best_matches[i]))
    THEN Raise("TypeError")
    ELSE best_matches[
            CHOOSE i \in 1..Len(best_matches) :
                /\ \A j \in 1..Len(best_matches) :
                       number(premium_amount_of(best_matches[i]))
                           <= number(premium_amount_of(best_matches[j]))
                /\ \A j \in 1..(i - 1) :
                       number(premium_amount_of(best_matches[j]))
                           > number(premium_amount_of(best_matches[i]))]

\* A policy without a match priced at 0 instead of None (a variant that C12
\* must tell apart).
best_or_free(best_matches) ==
    IF IsRaise(best_matches) THEN best_matches
    ELSE IF best_matches.v # <<>> THEN min_by_premium(best_matches.v)
    ELSE match_entry(PyDict(<<>>), PyInt(0), PyStr(<<"U","n","k","n","o","w","n">>), PyStr(<<>>))

\* `if best_matches: return min(...)`, else None.
best_of(best_matches) ==
    IF IsRaise(best_matches) THEN best_matches
    ELSE IF best_matches.v # <<>> THEN min_by_premium(best_matches.v)
    ELSE PyNone

\* PolicyRecommender.find_applicable_premium: the best match (a dict),
\* PyNone, or the exception that escapes.
find_applicable_premium(premiums, user_age, user_city, policy_category) ==
    IF ~truthy(premiums) \/ ~isinstance(premiums, "list") THEN PyNone
    ELSE best_of(zone_loop(premiums.v, user_age, user_city, policy_category))

----------------------------------------------------------------------------
(* Coverage Matcher: semantic score, and the combined score *)

\* SentenceTransformer.encode([text])
encode(model, text) == model[text]

\* The greatest r with r * r <= n.
RECURSIVE isqrt_between(_, _, _)
isqrt_between(n, lo, hi) ==
    IF lo = hi THEN lo
    ELSE LET mid == (lo + hi + 1) \div 2
         IN  IF mid * mid <= n THEN isqrt_between(n, mid, hi)
             ELSE isqrt_between(n, lo, mid - 1)

isqrt(n) == isqrt_between(n, 0, 46340)

dot(a, b) == a[1] * b[1] + a[2] * b[2]

\* Scores are kept in units of 1e-4.
ScoreUnit == 10000

\* sklearn cosine_similarity(a, b)[0][0] in units of 1e-4: the dot product
\* over the product of the norms, 0 when a norm is 0.
cosine_similarity(a, b) ==
    LET norms == isqrt(dot(a, a) * dot(b, b) * ScoreUnit * ScoreUnit)
    IN  IF norms = 0 THEN 0
        ELSE (dot(a, b) * ScoreUnit * ScoreUnit) \div norms

\* Weights of the combined score: keyword percentage * 0.007 + nlp * 0.3,
\* written as 7/1000 and 3/10.
KeywordWeightPerMille == 7
NlpWeightTenths == 3

\* n/d rounded to the nearest integer, a tie to the even one.
round_half_even(n, d) ==
    LET q == n \div d
        r == n - q * d
    IN  IF 2 * r < d THEN q
        ELSE IF 2 * r > d THEN q + 1
        ELSE IF q % 2 = 0 THEN q ELSE q + 1

\* Both signals weighted 0.005 and 0.5 (a variant that C21 must tell apart).
combined_score_even_weights(pct, nlp_score) ==
    round_half_even(
        5 * pct.num * (ScoreUnit \div 1000) * 10 + 5 * nlp_score * pct.den,
        10 * pct.den)

\* round(match_percentage * 0.007 + nlp_score * 0.3, 4) in units of 1e-4,
\* for the percentage pct.num/pct.den and nlp_score in units of 1e-4.
combined_score(pct, nlp_score) ==
    round_half_even(
        KeywordWeightPerMille * pct.num * (ScoreUnit \div 1000) * 10
            + NlpWeightTenths * nlp_score * pct.den,
        10 * pct.den)

----------------------------------------------------------------------------
(* Ranking Orchestrator *)

\* A find without the isActive filter (a variant that C1 must tell apart).
find_everything(collection) == collection

\* collection.find({"isActive": True}): the documents whose isActive is the
\* boolean true, in natural order.
find_active(collection) ==
    SelectSeq(collection, LAMBDA d : get(d, "isActive", PyNone) = PyBool(TRUE))

\* One turn of the filter loop for a policy whose resolver call gave info;
\* within is the outcome of `premium_amount <= user_budget`.
filter_step(acc, policy, info, within) ==
    IF IsRaise(info) THEN [acc EXCEPT !.calls = @ + 1, !.raised = info]
    ELSE IF info = PyNone THEN [acc EXCEPT !.calls = @ + 1]
    ELSE IF IsRaise(within) THEN [acc EXCEPT !.calls = @ + 1, !.raised = within]
    ELSE IF within.v
    THEN [acc EXCEPT !.calls = @ + 1,
                     !.kept = Append(@, set_item(policy, "premium_info", info))]
    ELSE [acc EXCEPT !.calls = @ + 1]

\* A premium strictly below the budget (a variant that C28 must tell apart).
filter_with_strictly_below(acc, policy, info, user_budget) ==
    filter_step(acc, policy, info,
                IF is_number(premium_amount_of(info))
                THEN Ok(number(premium_amount_of(info)) < user_budget)
                ELSE Raise("TypeError"))

\* `if premium_info and premium_info['premium_amount'] <= user_budget`
filter_with(acc, policy, info, user_budget) ==
    filter_step(acc, policy, info,
                py_le(premium_amount_of(info), PyInt(user_budget)))

filter_policy(acc, policy, req) ==
    filter_with(acc, policy,
                find_applicable_premium(get(policy, "premiums", PyList(<<>>)),
                                        req.user_age, req.user_city,
                                        req.policy_category),
                req.user_budget)

\* The filter loop: the policies kept (each with its premium_info), the
\* number of resolver calls made, and the exception that stopped it, if any.
RECURSIVE filter_policies(_, _, _)
filter_policies(policies, req, acc) ==
    IF policies = <<>> \/ acc.raised # PyNone THEN acc
    ELSE filter_policies(Tail(policies), req,
                         filter_policy(acc, Head(policies), req))

\* The dict appended to recommendations.
recommendation_entry(policy, premium_info, nlp_score, keyword_match, coverage_summary) ==
    [policy_id |-> py_str(get(policy, "_id", PyStr(<<"N","/","A">>))),
     policy_name |-> get(policy, "policyName", PyStr(<<"U","n","k","n","o","w","n">>)),
     insurer |-> get(policy, "insurer", PyStr(<<"U","n","k","n","o","w","n">>)),
     policy_type |-> get(policy, "policyType", PyStr(<<"N","/","A">>)),
     code |-> get(policy, "code", PyStr(<<"N","/","A">>)),
     premium |-> get(premium_info, "premium_amount", PyNone),
     sum_insured |-> get(premium_info, "sum_insured", PyNone),
     zone |-> get(premium_info, "zone", PyNone),
     composition |-> get(premium_info, "composition", PyNone),
     age_bracket |-> get(premium_info, "age_bracket", PyNone),
     nlp_score |-> nlp_score,
     keyword_score |-> keyword_match.match_percentage,
     combined_score |-> combined_score(keyword_match.match_percentage, nlp_score),
     matched_features |-> keyword_match.matched_features,
     coverage_summary |-> coverage_summary]

\* The entry for a policy, or the exception of its summary.
entry_or_raise(policy, nlp_score, keyword_match, coverage_summary) ==
    IF IsRaise(coverage_summary) THEN coverage_summary
    ELSE Ok(<<recommendation_entry(policy, get(policy, "premium_info", PyNone),
                                   nlp_score, keyword_match, coverage_summary.v)>>)

scored(policy, req, coverage_data, nlp_score, keyword_match) ==
    entry_or_raise(
        policy, nlp_score, keyword_match,
        generate_coverage_summary(req.user_coverage_requirement, coverage_data,
                                  keyword_match))

score_policy(policy, req, model, user_embedding, coverage_data) ==
    scored(policy, req, coverage_data,
           cosine_similarity(user_embedding, encode(model, coverage_data.text)),
           keyword_matching(req.user_coverage_requirement, coverage_data))

\* One turn of the scoring loop: Ok(<<entry>>), or the exception raised.
recommendation(policy, req, model, user_embedding) ==
    score_policy(policy, req, model, user_embedding,
                 extract_coverage_details(policy))

\* A sort key without the premium (a variant that C3 must tell apart).
key_less_by_score(a, b) == a.combined_score > b.combined_score

\* The sort key (-combined_score, premium) of a before that of b.
key_less(a, b) ==
    \/ a.combined_score > b.combined_score
    \/ /\ a.combined_score = b.combined_score
       /\ number(a.premium) < number(b.premium)

\* list.sort(key=...): stable, so an entry goes behind every entry already
\* placed whose key is not greater.
insert_sorted(sorted, x) ==
    LET behind == {i \in 1..Len(sorted) : ~key_less(x, sorted[i])}
        at == IF behind = {} THEN 0
              ELSE CHOOSE i \in behind : \A j \in behind : j <= i
    IN  SubSeq(sorted, 1, at) \o <<x>> \o SubSeq(sorted, at + 1, Len(sorted))

RECURSIVE sort_recommendations(_, _)
sort_recommendations(sorted, rest) ==
    IF rest = <<>> THEN sorted
    ELSE sort_recommendations(insert_sorted(sorted, Head(rest)), Tail(rest))

\* recommendations[:top_n]
slice_to(s, top_n) ==
    IF top_n >= 0 THEN SubSeq(s, 1, IF top_n < Len(s) THEN top_n ELSE Len(s))
    ELSE SubSeq(s, 1, IF Len(s) + top_n > 0 THEN Len(s) + top_n ELSE 0)

\* What a call leaves to its caller: the value returned (or the exception)
\* and how often it ran each collaborator and component.
Outcome(ret, resolver, extractor, matcher, encoder) ==
    [ret |-> ret, resolver_calls |-> resolver, extractor_calls |-> extractor,
     matcher_calls |-> matcher, encode_calls |-> encoder]

\* An error in place of the empty list (a variant that C7 must tell apart).
no_active_error == Outcome(Raise("ValueError"), 0, 0, 0, 0)

\* `return []` when the store holds no active policy.
no_active_result == Outcome(Ok(<<>>), 0, 0, 0, 0)

\* An error in place of the empty list (a variant that C8 must tell apart).
no_match_error(resolver_calls) ==
    Outcome(Raise("ValueError"), resolver_calls, 0, 0, 0)

\* The user's text encoded before the early return (a variant that C26 must
\* tell apart).
no_match_after_encode(resolver_calls) ==
    Outcome(Ok(<<>>), resolver_calls, 0, 0, 1)

\* `return []` when no policy passed the filter.
no_match_result(resolver_calls) == Outcome(Ok(<<>>), resolver_calls, 0, 0, 0)

\* A list that outlives the call, as an attribute of the recommender would
\* (a variant that C6 must tell apart).
kept_recommendations ==
    IF outcome # NoOutcome /\ ~IsRaise(outcome.ret) THEN outcome.ret.v ELSE <<>>

\* `recommendations = []`: every call starts its own list.
new_recommendations == <<>>

\* One turn of the scoring loop on the list built so far.
score_step(acc, entry) ==
    IF IsRaise(entry) THEN [acc EXCEPT !.calls = @ + 1, !.raised = entry]
    ELSE [acc EXCEPT !.calls = @ + 1,
                     !.recommendations = @ \o entry.v]

\* The scoring loop: the entries built, the number of policies scored, and
\* the exception that stopped it, if any.
RECURSIVE score_policies(_, _, _, _, _)
score_policies(policies, req, model, user_embedding, acc) ==
    IF policies = <<>> \/ acc.raised # PyNone THEN acc
    ELSE score_policies(
             Tail(policies), req, model, user_embedding,
             score_step(acc, recommendation(Head(policies), req, model,
                                            user_embedding)))

\* f"{value:,}": a str raises ValueError, anything else that is no number
\* TypeError.
format_error(value) ==
    IF is_number(value) THEN PyNone
    ELSE IF isinstance(value, "str") THEN Raise("ValueError")
    ELSE Raise("TypeError")

\* PolicyRecommender._display_recommendations: prints, or raises on the
\* first entry whose premium or sum_insured cannot be formatted.
RECURSIVE display_recommendations(_)
display_recommendations(recommendations) ==
    IF recommendations = <<>> THEN PyNone
    ELSE IF IsRaise(format_error(Head(recommendations).premium))
    THEN format_error(Head(recommendations).premium)
    ELSE IF IsRaise(format_error(Head(recommendations).sum_insured))
    THEN format_error(Head(recommendations).sum_insured)
    ELSE display_recommendations(Tail(recommendations))

\* `self._display_recommendations(top_recommendations)` and the return.
display_and_return(top_recommendations, displayed) ==
    IF IsRaise(displayed) THEN displayed ELSE Ok(top_recommendations)

sort_and_return(top_recommendations) ==
    display_and_return(top_recommendations,
                       display_recommendations(top_recommendations))

\* The sort, the slice and the return, after the scoring loop.
after_scoring(scored_policies, resolver_calls, top_n) ==
    Outcome(IF scored_policies.raised # PyNone THEN scored_policies.raised
            ELSE sort_and_return(
                     slice_to(sort_recommendations(
                                  <<>>, scored_policies.recommendations),
                              top_n)),
            resolver_calls, scored_policies.calls, scored_policies.calls,
            1 + scored_policies.calls)

\* get_recommendations from the end of the filter loop on.
after_filter(filtered, model, req) ==
    IF filtered.raised # PyNone
    THEN Outcome(filtered.raised, filtered.calls, 0, 0, 0)
    ELSE IF filtered.kept = <<>> THEN no_match_result(filtered.calls)
    ELSE after_scoring(
             score_policies(filtered.kept, req, model,
                            encode(model, req.user_coverage_requirement),
                            [recommendations |-> new_recommendations,
                             calls |-> 0, raised |-> PyNone]),
             filtered.calls, req.top_n)

\* get_recommendations from the fetch of the active policies on.
after_fetch(active_policies, model, req) ==
    IF active_policies = <<>> THEN no_active_result
    ELSE after_filter(
             filter_policies(active_policies, req,
                             [kept |-> <<>>, calls |-> 0, raised |-> PyNone]),
             model, req)

\* PolicyRecommender.get_recommendations
get_recommendations(collection, model, req) ==
    after_fetch(find_active(collection), model, req)

----------------------------------------------------------------------------
(* The documents and requests considered *)

\* Documents of the schema of the "compare" collection.
AgeBracket(age, amount) ==
    PyDict(<< <<"age", PyStr(age)>>, <<"premiumAmount", PyInt(amount)>> >>)

PremiumOption(type, composition, brackets) ==
    PyDict(<< <<"type", PyStr(type)>>, <<"composition", PyStr(composition)>>,
              <<"ageBrackets", PyList(brackets)>> >>)

ChartItem(sum_insured, options) ==
    PyDict(<< <<"sumInsured", PyInt(sum_insured)>>,
              <<"premiumOptions", PyList(options)>> >>)

Zone(name, cities, chart) ==
    PyDict(<< <<"zoneName", PyStr(name)>>,
              <<"cities", PyList([i \in 1..Len(cities) |-> PyStr(cities[i])])>>,
              <<"premiumChart", PyList(chart)>> >>)

SpecialCoverage(disease, covered, details, limit) ==
    PyDict(<< <<"diseaseName", PyStr(disease)>>, <<"isCovered", PyBool(covered)>>,
              <<"details", PyStr(details)>>, <<"limit", limit>> >>)

AddOn(name, available) ==
    PyDict(<< <<"name", PyStr(name)>>, <<"isAvailable", PyBool(available)>> >>)

Policy(id, flags, special, addons, premiums) ==
    PyDict(<< <<"_id", PyInt(id)>> >> \o flags
           \o << <<"specialCoverages", PyList(special)>>,
                 <<"addOns_OptionalBenefits", PyList(addons)>>,
                 <<"premiums", PyList(premiums)>> >>)

Active == << <<"isActive", PyBool(TRUE)>> >>
Inactive == << <<"isActive", PyBool(FALSE)>> >>

CancerCovered == <<SpecialCoverage(<<"C","a","n","c","e","r">>, TRUE, <<"c","o","v","e","r","e","d">>, PyInt(500000))>>

\* 1: cancer cover; 8000 at 18-35, 20000 at 65+, a family option at 15000.
Policy1 ==
    Policy(1, Active, CancerCovered, <<>>,
           <<Zone(<<"Z","o","n","e"," ","A">>, <<<<"M","u","m","b","a","i">>, <<"P","u","n","e">>>>,
                  <<ChartItem(500000,
                        <<PremiumOption(<<"I","n","d","i","v","i","d","u","a","l">>, <<"1","A">>,
                              <<AgeBracket(<<"1","8","-","3","5">>, 8000),
                                AgeBracket(<<"3","6","-","6","4">>, 12000),
                                AgeBracket(<<"6","5","+">>, 20000)>>),
                          PremiumOption(<<"F","a","m","i","l","y">>, <<"2","A">>,
                              <<AgeBracket(<<"1","8","-","3","5">>, 15000)>>)>>)>>)>>)

\* 2: the same cover as 1; Mumbai is in two of its zones (6000 and 4000).
Policy2 ==
    Policy(2, Active, CancerCovered, <<>>,
           <<Zone(<<"M","e","t","r","o">>, <<<<"M","u","m","b","a","i">>>>,
                  <<ChartItem(300000,
                        <<PremiumOption(<<"I","n","d","i","v","i","d","u","a","l">>, <<"1","A">>,
                              <<AgeBracket(<<"1","8","-","3","5">>, 6000)>>)>>)>>),
             Zone(<<"S","u","b","u","r","b","a","n">>, <<<<"N","a","v","i"," ","M","u","m","b","a","i">>>>,
                  <<ChartItem(200000,
                        <<PremiumOption(<<"I","n","d","i","v","i","d","u","a","l">>, <<"1","A">>,
                              <<AgeBracket(<<"1","8","-","3","5">>, 4000)>>)>>)>>)>>)

\* 3: inactive, cheaper than all others and with the same cover.
Policy3 ==
    Policy(3, Inactive, CancerCovered, <<>>,
           <<Zone(<<"Z","o","n","e"," ","A">>, <<<<"M","u","m","b","a","i">>>>,
                  <<ChartItem(500000,
                        <<PremiumOption(<<"I","n","d","i","v","i","d","u","a","l">>, <<"1","A">>,
                              <<AgeBracket(<<"0","-","6","4">>, 1000),
                                AgeBracket(<<"6","5","+">>, 1000)>>),
                          PremiumOption(<<"F","a","m","i","l","y">>, <<"2","A">>,
                              <<AgeBracket(<<"0","+">>, 1000)>>)>>)>>)>>)

\* 4: HIV cover and a maternity add-on, cancer listed as not covered.
Policy4 ==
    Policy(4, Active,
           <<SpecialCoverage(<<"H","I","V">>, TRUE, <<"a","i","d","s"," ","c","a","r","e">>, PyStr(<<>>)),
             SpecialCoverage(<<"C","a","n","c","e","r">>, FALSE, <<"o","n","c","o","l","o","g","y">>, PyInt(100000))>>,
           <<AddOn(<<"M","a","t","e","r","n","i","t","y">>, TRUE), AddOn(<<"A","c","c","i","d","e","n","t">>, FALSE)>>,
           <<Zone(<<"A","l","l">>, <<<<"M","u","m","b","a","i">>, <<"D","e","l","h","i"," ","N","C","R">>>>,
                  <<ChartItem(400000,
                        <<PremiumOption(<<"I","n","d","i","v","i","d","u","a","l">>, <<"1","A">>,
                              <<AgeBracket(<<"2","8">>, 3000),
                                AgeBracket(<<"6","5","+">>, 9000)>>)>>)>>)>>)

\* 5: a document without an isActive field, cheap and with cancer cover.
Policy5 ==
    Policy(5, <<>>, CancerCovered, <<>>,
           <<Zone(<<"Z","o","n","e"," ","A">>, <<<<"M","u","m","b","a","i">>, <<"D","e","l","h","i">>>>,
                  <<ChartItem(500000,
                        <<PremiumOption(<<"I","n","d","i","v","i","d","u","a","l">>, <<"1","A">>,
                              <<AgeBracket(<<"0","+">>, 2000)>>),
                          PremiumOption(<<"F","a","m","i","l","y">>, <<"2","A">>,
                              <<AgeBracket(<<"0","+">>, 2000)>>)>>)>>)>>)

Catalogue == {Policy1, Policy2, Policy3, Policy4, Policy5}

\* The number of documents in the collection is at most MaxPolicies.
MaxPolicies == 2

\* The contents the collection may have: documents with distinct _id.
Stores ==
    {s \in UNION {[1..n -> Catalogue] : n \in 0..MaxPolicies} :
        \A i, j \in 1..Len(s) : i # j => s[i] # s[j]}

Requirements == {<<"I"," ","n","e","e","d"," ","c","a","n","c","e","r"," ","c","o","v","e","r","a","g","e">>, <<"H","I","V"," ","a","n","d"," ","C","a","n","c","e","r">>}

Requests ==
    [user_age : {28, 70},
     user_budget : {5000, 15000},
     user_city : {<<"m","u","m","b","a","i">>, <<"D","e","l","h","i">>},
     policy_category : {<<"I","n","d","i","v","i","d","u","a","l">>, <<"F","a","m","i","l","y">>},
     user_coverage_requirement : Requirements,
     top_n : {1, 5}]

\* The texts of the documents, which the embedding model encodes.
PolicyTexts == {extract_coverage_details(p).text : p \in Catalogue}

\* The vectors the embedding model may give a text.
Vectors == {<<1, 0>>, <<1, 1>>}

\* get_recommendations is called at most MaxCalls times in a row.
MaxCalls == 2

----------------------------------------------------------------------------
(* The recommender as a state machine *)

\* The embedding model is a fixed function of the text.  The vector of a
\* document text is drawn at the start, the vector of a requirement text
\* when it is first encoded; from then on it stays.
Init ==
    /\ store \in Stores
    /\ embedding \in [PolicyTexts -> Vectors]
    /\ request = NoRequest
    /\ outcome = NoOutcome
    /\ ncalls = 0
    /\ fn = Idle
    /\ fnArgs = <<>>
    /\ fnResult = <<>>
    /\ route = Stopped({})

\* The model with the vector v for a text it has not encoded before.
with_text(model, text, v) ==
    IF text \in DOMAIN model THEN model ELSE model @@ (text :> v)

\* A first call of get_recommendations, with any arguments.
GetRecommendations ==
    /\ request = NoRequest
    /\ \E req \in Requests, v \in Vectors :
        LET model == with_text(embedding, req.user_coverage_requirement, v)
        IN  /\ request' = req
            /\ embedding' = model
            /\ outcome' = get_recommendations(store, model, req)
    /\ ncalls' = 1
    /\ UNCHANGED <<store, fn, fnArgs, fnResult, route>>

\* The same call again, with identical arguments.
GetRecommendationsAgain ==
    /\ request # NoRequest
    /\ ncalls < MaxCalls
    /\ outcome' = get_recommendations(store, embedding, request)
    /\ ncalls' = ncalls + 1
    /\ UNCHANGED <<store, embedding, request, fn, fnArgs, fnResult, route>>

Next == GetRecommendations \/ GetRecommendationsAgain

Spec == Init /\ [][Next]_vars

----------------------------------------------------------------------------
(* The service: startup check and the /recommend-policies route *)

\* The environment variables the service reads.
EnvNames == {"GROQ_API_KEY", "MONGODB_CONNECTION", "MONGODB_URL"}

\* main.py: the service runs only if GROQ_API_KEY and MONGODB_CONNECTION are
\* set; otherwise the import raises ValueError and the process ends.
startup(env) ==
    IF "GROQ_API_KEY" \notin env \/ "MONGODB_CONNECTION" \notin env
    THEN "failed"
    ELSE "running"

\* What a collaborator may do during one request: work, fail on the read of
\* the store (line 325), or fail on the k-th call of encode (line 356 for
\* k = 1, line 364 in turn k-1 of the scoring loop).
Faults ==
    {NoFault, [at |-> "find", k |-> 0]}
        \cup {[at |-> "encode", k |-> k] : k \in 1..(MaxPolicies + 1)}

\* Whether the call, which without fault ends as normal, meets the fault.
fired(fault, normal) ==
    \/ fault.at = "find"
    \/ fault.at = "encode" /\ normal.encode_calls >= fault.k

\* The fault swallowed and an empty list returned (a variant that C19 must
\* tell apart).
get_recommendations_degraded(fault, normal) ==
    IF fault.at = "find" THEN Outcome(Ok(<<>>), 0, 0, 0, 0)
    ELSE IF fired(fault, normal)
    THEN Outcome(Ok(<<>>), normal.resolver_calls, fault.k - 1,
                 IF fault.k >= 2 THEN fault.k - 2 ELSE 0, fault.k)
    ELSE normal

\* get_recommendations with a collaborator that fails: no statement of it
\* catches the exception of find or of encode, so the call ends there with
\* that exception; up to there it runs as without fault.
get_recommendations_failing(fault, normal) ==
    IF fault.at = "find"
    THEN Outcome(Raise("ServerSelectionTimeoutError"), 0, 0, 0, 0)
    ELSE IF fired(fault, normal)
    THEN Outcome(Raise("RuntimeError"), normal.resolver_calls, fault.k - 1,
                 IF fault.k >= 2 THEN fault.k - 2 ELSE 0, fault.k)
    ELSE normal

\* `raise HTTPException(status_code=500, detail=...)`
HTTPException(status_code, detail) == [status |-> status_code, detail |-> detail]

\* The keyword arguments of lines 54-61.
arguments(body) ==
    [user_age |-> body.age, user_budget |-> body.budget,
     user_city |-> body.city, policy_category |-> body.category,
     user_coverage_requirement |-> body.coverage_requirement,
     top_n |-> body.top_n]

\* The route from the return of get_recommendations on: close() and the
\* response on a normal return, the handler of `except Exception` otherwise.
\* The client and the model were created by PolicyRecommender(...).
after_call(result, fault) ==
    IF IsRaise(result.ret)
    THEN [response |-> HTTPException(500, result.ret.v), called |-> TRUE,
          clients_opened |-> 1, clients_closed |-> 0, model_loads |-> 1,
          outcome |-> result, fault |-> fault]
    ELSE [response |-> [status |-> 200, recommendations |-> result.ret.v],
          called |-> TRUE,
          clients_opened |-> 1, clients_closed |-> 1, model_loads |-> 1,
          outcome |-> result, fault |-> fault]

\* The fault as the request met it.
met(fault, normal) == IF fired(fault, normal) THEN fault ELSE NoFault

call_recommender(normal, fault) ==
    after_call(get_recommendations_failing(fault, normal), met(fault, normal))

MissingUrl == "MONGODB_URL is not set in environment variables."

\* recommend_policies(request)
recommend_policies(env, collection, model, body, fault) ==
    IF "MONGODB_URL" \notin env
    THEN [response |-> HTTPException(500, MissingUrl), called |-> FALSE,
          clients_opened |-> 0, clients_closed |-> 0, model_loads |-> 0,
          outcome |-> NoOutcome, fault |-> NoFault]
    ELSE call_recommender(
             get_recommendations(collection, model, arguments(body)), fault)

\* RecommendationRequest: top_n is any integer.
TopNs == {-1, 0, 1, 2, 5}

Bodies ==
    [age : {28}, budget : {15000}, city : {<<"m","u","m","b","a","i">>},
     category : {<<"I","n","d","i","v","i","d","u","a","l">>},
     coverage_requirement : {<<"H","I","V"," ","a","n","d"," ","C","a","n","c","e","r">>},
     top_n : TopNs]

\* The contents of the collection behind the route: active documents that
\* follow the schema.
RouteStores == {s \in Stores : \A i \in 1..Len(s) : s[i] \in {Policy1, Policy2, Policy4}}

RouteInit ==
    /\ store \in RouteStores
    /\ embedding \in [PolicyTexts -> {<<1, 1>>}]
    /\ request = NoRequest
    /\ outcome = NoOutcome
    /\ ncalls = 0
    /\ fn = Idle
    /\ fnArgs = <<>>
    /\ fnResult = <<>>
    /\ route \in {Stopped(env) : env \in SUBSET EnvNames}

\* The process starts: the module-level check of main.py.
Startup ==
    /\ route.phase = "stopped"
    /\ route' = [route EXCEPT !.phase = startup(route.env)]
    /\ UNCHANGED <<store, embedding, request, outcome, ncalls, fn, fnArgs, fnResult>>

\* The state after a request handled as done says.
Handled(done, body, model) ==
    /\ route' = [route EXCEPT
                    !.response = done.response,
                    !.fault = done.fault,
                    !.clients_open = @ + done.clients_opened - done.clients_closed,
                    !.model_loads = @ + done.model_loads]
    /\ request' = IF done.called THEN arguments(body) ELSE request
    /\ outcome' = IF done.called THEN done.outcome ELSE outcome
    /\ embedding' = IF done.called THEN model ELSE embedding

\* POST /recommend-policies on the running service.
RecommendPolicies ==
    /\ route.phase = "running"
    /\ ncalls < MaxCalls
    /\ \E body \in Bodies, fault \in Faults :
        LET model == with_text(embedding, body.coverage_requirement, <<1, 0>>)
            done == recommend_policies(route.env, store, model, body, fault)
        IN  Handled(done, body, model)
    /\ ncalls' = ncalls + 1
    /\ UNCHANGED <<store, fn, fnArgs, fnResult>>

RouteNext == Startup \/ RecommendPolicies

RouteSpec == RouteInit /\ [][RouteNext]_vars

----------------------------------------------------------------------------
(* Ranking passes over a catalogue with a bracket that has no premium *)

\* 6: cancer cover; a bracket 18-35 without premiumAmount next to 0+ at 20000.
Policy6 ==
    Policy(6, Active, CancerCovered, <<>>,
           <<Zone(<<"Z","o","n","e"," ","B">>, <<<<"M","u","m","b","a","i">>, <<"D","e","l","h","i">>>>,
                  <<ChartItem(250000,
                        <<PremiumOption(<<"I","n","d","i","v","i","d","u","a","l">>, <<"1","A">>,
                              <<PyDict(<< <<"age", PyStr(<<"1","8","-","3","5">>)>> >>),
                                AgeBracket(<<"0","+">>, 20000)>>)>>)>>)>>)

PassCatalogue == {Policy1, Policy3, Policy4, Policy6}

PassStores ==
    {s \in UNION {[1..n -> PassCatalogue] : n \in 0..MaxPolicies} :
        \A i, j \in 1..Len(s) : i # j => s[i] # s[j]}

PassTexts == {extract_coverage_details(p).text : p \in PassCatalogue}

PassInit ==
    /\ store \in PassStores
    /\ embedding \in [PassTexts -> Vectors]
    /\ request = NoRequest
    /\ outcome = NoOutcome
    /\ ncalls = 0
    /\ fn = Idle
    /\ fnArgs = <<>>
    /\ fnResult = <<>>
    /\ route = Stopped({})

PassSpec == PassInit /\ [][Next]_vars

----------------------------------------------------------------------------
(* The pure functions applied on their own *)

\* Requirement texts and policy texts for keyword_matching.
KeywordRequirements ==
    {<<"I"," ","n","e","e","d"," ","c","a","n","c","e","r"," ","c","o","v","e","r","a","g","e">>, <<"I"," ","n","e","e","d"," ","C","a","n","c","e","r"," ","c","o","v","e","r">>, <<"h","e","l","l","o"," ","t","h","e","r","e">>, <<>>,
     <<"H","I","V","/","A","I","D","S"," ","a","n","d"," ","m","e","n","t","a","l"," ","h","e","a","l","t","h">>, <<"H","o","s","p","i","t","a","l"," ","s","t","a","y">>, <<"m","a","t","e","r","n","i","t","y",","," ","c","a","n","c","e","r">>,
     <<"p","r","e","-","h","o","s","p","i","t","a","l","i","z","a","t","i","o","n">>}

KeywordTexts ==
    {<<"c","a","n","c","e","r"," ","t","r","e","a","t","m","e","n","t"," ","c","o","v","e","r","e","d"," ","u","p"," ","t","o"," ","5","0","0","0","0","0">>, <<"C","a","n","c","e","r"," ","c","o","v","e","r","e","d"," ","5","0","0","0","0","0">>, <<>>,
     <<"H","I","V"," ","a","i","d","s"," ","c","a","r","e"," "," ","M","a","t","e","r","n","i","t","y"," ">>, <<"i","n","P","a","t","i","e","n","t",":"," ","y","e","s">>, <<"O","n","c","o","l","o","g","y"," ","P","r","e","g","n","a","n","c","y">>,
     <<"r","o","o","m"," ","r","e","n","t",":"," ","1","%"," ","o","f"," ","S","I">>, <<"p","o","s","t"," ","h","o","s","p","i","t","a","l","i","z","a","t","i","o","n",":"," ","6","0"," ","d","a","y","s">>}

\* Age brackets by their form, and the ages asked about.
BracketForms ==
    [form : {"N+"}, n : {0, 18, 65}]
    \cup [form : {"A-B"}, a : {0, 18}, b : {18, 35}]
    \cup [form : {"N"}, n : {0, 30, 999}]

Ages == {0, 17, 18, 30, 35, 36, 64, 65, 100, 999, 1000}

\* The age string of a bracket of the given form.
bracket_text(b) ==
    CASE b.form = "N+" -> IntText(b.n) \o <<"+">>
      [] b.form = "A-B" -> IntText(b.a) \o <<"-">> \o IntText(b.b)
      [] b.form = "N" -> IntText(b.n)

\* Premium tables for find_applicable_premium: those of the documents, one
\* with two sum-insured tiers and overlapping brackets, and one whose option
\* mixes well-formed brackets with brackets whose age is an empty string,
\* no number, no str, or a string of none of the three forms.
TieredTable ==
    PyList(<<Zone(<<"N","o","r","t","h">>, <<<<"D","e","l","h","i"," ","N","C","R">>, <<"P","u","n","e">>>>,
                  <<ChartItem(300000,
                        <<PremiumOption(<<"I","n","d","i","v","i","d","u","a","l">>, <<"1","A">>,
                              <<AgeBracket(<<"1","8","-","3","5">>, 7000),
                                AgeBracket(<<"2","5","-","4","0">>, 6500)>>)>>),
                    ChartItem(500000,
                        <<PremiumOption(<<"I","n","d","i","v","i","d","u","a","l">>, <<"1","A">>,
                              <<AgeBracket(<<"1","8","-","3","5">>, 9000),
                                AgeBracket(<<"6","5","+">>, 5000)>>),
                          PremiumOption(<<"i","n","d","i","v","i","d","u","a","l">>, <<"1","A">>,
                              <<AgeBracket(<<"0","+">>, 100)>>)>>)>>),
             Zone(<<"C","a","p","i","t","a","l">>, <<<<"D","e","l","h","i">>>>,
                  <<ChartItem(300000,
                        <<PremiumOption(<<"I","n","d","i","v","i","d","u","a","l">>, <<"1","A">>,
                              <<AgeBracket(<<"2","8">>, 6800),
                                AgeBracket(<<"6","5","+">>, 5000)>>)>>)>>)>>)

BracketWith(age, amount) ==
    PyDict(<< <<"age", age>>, <<"premiumAmount", PyInt(amount)>> >>)

MalformedBrackets ==
    <<BracketWith(PyStr(<<>>), 100), BracketWith(PyStr(<<"a","d","u","l","t">>), 200),
      BracketWith(PyInt(28), 300), BracketWith(PyNone, 400),
      BracketWith(PyStr(<<"1","8","-">>), 500), BracketWith(PyStr(<<"6","+","5">>), 600),
      BracketWith(PyStr(<<"1","8","-","3","5","-","5","0">>), 700)>>

MalformedTable ==
    PyList(<<Zone(<<"Z","o","n","e"," ","A">>, <<<<"M","u","m","b","a","i">>, <<"D","e","l","h","i">>>>,
                  <<ChartItem(500000,
                        <<PremiumOption(<<"I","n","d","i","v","i","d","u","a","l">>, <<"1","A">>,
                              MalformedBrackets
                              \o <<AgeBracket(<<"1","8","-","3","5">>, 8000),
                                   AgeBracket(<<"6","5","+">>, 20000)>>),
                          PremiumOption(<<"F","a","m","i","l","y">>, <<"2","A">>,
                              <<AgeBracket(<<"1","8","-","3","5">>, 15000),
                                AgeBracket(<<"6","5","+">>, 30000)>>)>>)>>)>>)

PremiumTables ==
    {get(p, "premiums", PyNone) : p \in Catalogue}
        \cup {TieredTable, MalformedTable, PyList(<<>>)}

ResolverAges == {28, 70}
ResolverCities == {<<"m","u","m","b","a","i">>, <<"M","U","M","B","A","I">>, <<"D","e","l","h","i">>, <<"d","e","l","h","i"," ","n","c","r">>, <<"C","h","e","n","n","a","i">>}
ResolverCategories == {<<"I","n","d","i","v","i","d","u","a","l">>, <<"i","n","d","i","v","i","d","u","a","l">>, <<"F","a","m","i","l","y">>}

FnInit ==
    /\ store = <<>>
    /\ embedding = <<>>
    /\ request = NoRequest
    /\ outcome = NoOutcome
    /\ ncalls = 0
    /\ fn = Idle
    /\ fnArgs = <<>>
    /\ fnResult = <<>>
    /\ route = Stopped({})

\* keyword_matching on a requirement and a policy text.
ApplyKeywordMatching ==
    /\ fn = Idle
    /\ \E u \in KeywordRequirements, text \in KeywordTexts :
        /\ fnArgs' = <<u, text>>
        /\ fnResult' = keyword_matching(u, [text |-> text])
    /\ fn' = "keyword_matching"
    /\ UNCHANGED <<store, embedding, request, outcome, ncalls, route>>

\* The age test of find_applicable_premium on a bracket and an age.
ApplyAgeInBracket ==
    /\ fn = Idle
    /\ \E b \in BracketForms, user_age \in Ages :
        /\ fnArgs' = <<b, user_age>>
        /\ fnResult' = age_in_bracket(PyStr(bracket_text(b)), user_age)
    /\ fn' = "age_in_bracket"
    /\ UNCHANGED <<store, embedding, request, outcome, ncalls, route>>

\* find_applicable_premium on a premium table.
ApplyFindApplicablePremium ==
    /\ fn = Idle
    /\ \E premiums \in PremiumTables, user_age \in ResolverAges,
          user_city \in ResolverCities, policy_category \in ResolverCategories :
        /\ fnArgs' = <<premiums, user_age, user_city, policy_category>>
        /\ fnResult' = find_applicable_premium(premiums, user_age, user_city,
                                               policy_category)
    /\ fn' = "find_applicable_premium"
    /\ UNCHANGED <<store, embedding, request, outcome, ncalls, route>>

----------------------------------------------------------------------------
(* Documents with null, missing or misshaped fields *)

\* A field of a document as the list of its <<key, value>> pairs: one pair,
\* or none when the field is absent.
Entry(key, value) == << <<key, value>> >>
Absent == <<>>

OptionalFields ==
    {"coverage", "specialCoverages", "addOns_OptionalBenefits", "premiums",
     "cities", "premiumChart", "premiumOptions", "ageBrackets"}

\* The field as given by entry if it is the field changed, else as it is in
\* the complete document.
FieldOr(changed, field, entry, value) ==
    IF changed = field THEN entry ELSE Entry(field, value)

\* An active document, complete except that the field `changed` is given by
\* entry.
DocWith(changed, entry) ==
    PyDict(
        << <<"_id", PyInt(6)>>, <<"isActive", PyBool(TRUE)>> >>
        \o FieldOr(changed, "coverage", entry,
                   PyDict(<< <<"dayCare", PyBool(TRUE)>> >>))
        \o FieldOr(changed, "specialCoverages", entry, PyList(CancerCovered))
        \o FieldOr(changed, "addOns_OptionalBenefits", entry,
                   PyList(<<AddOn(<<"M","a","t","e","r","n","i","t","y">>, TRUE)>>))
        \o FieldOr(changed, "premiums", entry, PyList(<<PyDict(
               << <<"zoneName", PyStr(<<"Z","o","n","e"," ","R">>)>> >>
               \o FieldOr(changed, "cities", entry,
                          PyList(<<PyStr(<<"M","u","m","b","a","i">>), PyStr(<<"D","e","l","h","i">>)>>))
               \o FieldOr(changed, "premiumChart", entry, PyList(<<PyDict(
                      << <<"sumInsured", PyInt(400000)>> >>
                      \o FieldOr(changed, "premiumOptions", entry, PyList(<<PyDict(
                             << <<"type", PyStr(<<"I","n","d","i","v","i","d","u","a","l">>)>>,
                                <<"composition", PyStr(<<"1","A">>)>> >>
                             \o FieldOr(changed, "ageBrackets", entry,
                                        PyList(<<AgeBracket(<<"1","8","-","3","5">>, 3000),
                                                 AgeBracket(<<"6","5","+">>, 4500)>>)))>>)))>>)))>>)))

NullDoc(field) == DocWith(field, Entry(field, PyNone))
AbsentDoc(field) == DocWith(field, Absent)
NullDocs == {NullDoc(field) : field \in OptionalFields}
AbsentDocs == {AbsentDoc(field) : field \in OptionalFields}

\* Documents with a value of an unexpected shape: a null among the cities, a
\* premium written as a string, a null sum insured, a null disease name.
MisshapedDocs ==
    {DocWith("cities", Entry("cities", PyList(<<PyNone, PyStr(<<"M","u","m","b","a","i">>)>>))),
     DocWith("ageBrackets",
             Entry("ageBrackets",
                   PyList(<<BracketWith(PyStr(<<"1","8","-","3","5">>), 3000),
                            PyDict(<< <<"age", PyStr(<<"0","+">>)>>,
                                      <<"premiumAmount", PyStr(<<"2","5","0","0">>)>> >>)>>))),
     DocWith("premiumChart",
             Entry("premiumChart",
                   PyList(<<PyDict(
                       << <<"sumInsured", PyNone>>,
                          <<"premiumOptions",
                            PyList(<<PremiumOption(<<"I","n","d","i","v","i","d","u","a","l">>, <<"1","A">>,
                                         <<AgeBracket(<<"0","+">>, 3000)>>)>>)>> >>)>>))),
     DocWith("specialCoverages",
             Entry("specialCoverages",
                   PyList(<<PyDict(<< <<"diseaseName", PyNone>>,
                                      <<"isCovered", PyBool(TRUE)>>,
                                      <<"details", PyStr(<<"c","a","n","c","e","r"," ","c","a","r","e">>)>> >>)>>)))}

RecordDocs == NullDocs \cup AbsentDocs \cup MisshapedDocs

\* One such document alone, or before or after a well-formed one.
RecordStores ==
    {<<d>> : d \in RecordDocs}
        \cup {<<d, Policy1>> : d \in RecordDocs}
        \cup {<<Policy1, d>> : d \in RecordDocs}

RecordTexts == {extract_coverage_details(p).text : p \in RecordDocs \cup {Policy1}}

RecordInit ==
    /\ store \in RecordStores
    /\ embedding \in [RecordTexts -> {<<1, 1>>}]
    /\ request = NoRequest
    /\ outcome = NoOutcome
    /\ ncalls = 0
    /\ fn = Idle
    /\ fnArgs = <<>>
    /\ fnResult = <<>>
    /\ route = Stopped({})

RecordSpec == RecordInit /\ [][Next]_vars

\* The requirements generate_coverage_summary is applied to: without a
\* trigger of a headline category, with two, with five and with one.
SummaryRequirements ==
    {<<"y","o","g","a"," ","c","l","a","s","s","e","s">>, <<"h","o","s","p","i","t","a","l"," ","s","t","a","y">>, <<"H","I","V"," ","a","n","d"," ","C","a","n","c","e","r">>,
     <<"h","i","v",","," ","c","a","n","c","e","r",","," ","m","e","n","t","a","l",","," ","m","a","t","e","r","n","i","t","y"," ","a","n","d"," ","a","c","c","i","d","e","n","t"," ","c","o","v","e","r">>, <<"P","r","e","g","n","a","n","c","y">>}

\* A policy that covers five headline categories and has three add-ons
\* available, and one that covers nothing.
RichPolicy ==
    Policy(7, Active,
           <<SpecialCoverage(<<"H","I","V">>, TRUE, <<"a","i","d","s"," ","c","a","r","e">>, PyStr(<<>>)),
             SpecialCoverage(<<"C","a","n","c","e","r">>, TRUE, <<"o","n","c","o","l","o","g","y">>, PyInt(500000)),
             SpecialCoverage(<<"M","e","n","t","a","l"," ","i","l","l","n","e","s","s">>, TRUE, <<"p","s","y","c","h","i","a","t","r","i","c"," ","c","a","r","e">>, PyStr(<<"2"," ","l","a","k","h">>)),
             SpecialCoverage(<<"C","r","i","t","i","c","a","l"," ","i","l","l","n","e","s","s">>, FALSE, <<>>, PyInt(100000))>>,
           <<AddOn(<<"M","a","t","e","r","n","i","t","y">>, TRUE), AddOn(<<"W","e","l","l","n","e","s","s">>, FALSE),
             AddOn(<<"A","c","c","i","d","e","n","t">>, TRUE), AddOn(<<"D","e","n","t","a","l">>, TRUE)>>,
           <<>>)

BarePolicy == Policy(8, Active, <<>>, <<>>, <<>>)

SummaryPolicies == {Policy1, Policy4, RichPolicy, BarePolicy}

\* generate_coverage_summary on a requirement and the coverage data of a
\* policy.
ApplyGenerateCoverageSummary ==
    /\ fn = Idle
    /\ \E u \in SummaryRequirements, policy \in SummaryPolicies :
        /\ fnArgs' = <<u, policy>>
        /\ fnResult' = generate_coverage_summary(
                           u, extract_coverage_details(policy),
                           keyword_matching(u, extract_coverage_details(policy)))
    /\ fn' = "generate_coverage_summary"
    /\ UNCHANGED <<store, embedding, request, outcome, ncalls, route>>

\* An entry of specialCoverages or addOns_OptionalBenefits with the flag
\* given as a list of pairs (none when the flag is missing).
Flagged(name_key, name, flag, details) ==
    PyDict(<< <<name_key, PyStr(name)>> >> \o flag
           \o << <<"details", PyStr(details)>> >>)

\* A document whose entries carry true, false, truthy, falsy and missing
\* flags, next to a list element that is no dict and a coverage object.
MixedFlagsPolicy ==
    PyDict(<< <<"_id", PyInt(9)>>,
              <<"coverage", PyDict(<< <<"dayCare", PyBool(TRUE)>>,
                                      <<"room_rent", PyStr(<<"s","i","n","g","l","e">>)>> >>)>>,
              <<"specialCoverages",
                PyList(<<Flagged("diseaseName", <<"D","i","a","b","e","t","e","s">>,
                                 Entry("isCovered", PyBool(FALSE)), <<"i","n","s","u","l","i","n">>),
                         Flagged("diseaseName", <<"C","a","n","c","e","r">>,
                                 Entry("isCovered", PyBool(TRUE)), <<"o","n","c","o","l","o","g","y">>),
                         PyStr(<<"T","u","b","e","r","c","u","l","o","s","i","s">>),
                         Flagged("diseaseName", <<"M","a","l","a","r","i","a">>,
                                 Entry("isCovered", PyInt(0)), <<"q","u","i","n","i","n","e">>),
                         Flagged("diseaseName", <<"A","s","t","h","m","a">>,
                                 Entry("isCovered", PyStr(<<"y","e","s">>)), <<"i","n","h","a","l","e","r">>),
                         Flagged("diseaseName", <<"D","e","n","g","u","e">>, <<>>, <<"p","l","a","t","e","l","e","t","s">>),
                         Flagged("diseaseName", <<"S","t","r","o","k","e">>,
                                 Entry("isCovered", PyNone), <<"r","e","h","a","b">>)>>)>>,
              <<"addOns_OptionalBenefits",
                PyList(<<Flagged("name", <<"D","e","n","t","a","l">>,
                                 Entry("isAvailable", PyBool(FALSE)), <<"t","e","e","t","h">>),
                         Flagged("name", <<"W","e","l","l","n","e","s","s">>,
                                 Entry("isAvailable", PyInt(1)), <<"g","y","m">>),
                         Flagged("name", <<"V","i","s","i","o","n">>, <<>>, <<"l","e","n","s","e","s">>),
                         Flagged("name", <<"M","a","t","e","r","n","i","t","y">>,
                                 Entry("isAvailable", PyBool(TRUE)), <<"d","e","l","i","v","e","r","y">>)>>)>> >>)

ExtractPolicies == {Policy1, Policy4, RichPolicy, BarePolicy, MixedFlagsPolicy}

\* extract_coverage_details on a document.
ApplyExtractCoverageDetails ==
    /\ fn = Idle
    /\ \E policy \in ExtractPolicies :
        /\ fnArgs' = <<policy>>
        /\ fnResult' = extract_coverage_details(policy)
    /\ fn' = "extract_coverage_details"
    /\ UNCHANGED <<store, embedding, request, outcome, ncalls, route>>

\* Nested objects: a dict in a dict, arrays of objects whose elements repeat
\* a field, an array of scalars, an array of objects below a dict.
FlattenInputs ==
    {PyDict(<<>>),
     PyDict(<< <<"inPatient", PyBool(TRUE)>>,
               <<"room_rent", PyDict(<< <<"limit", PyInt(5000)>>,
                                        <<"name", PyStr(<<"s","i","n","g","l","e">>)>> >>)>> >>),
     PyDict(<< <<"benefits",
                 PyList(<<PyDict(<< <<"name", PyStr(<<"A">>)>>, <<"limit", PyInt(1)>> >>),
                          PyDict(<< <<"name", PyStr(<<"B">>)>>, <<"limit", PyInt(2)>> >>),
                          PyDict(<< <<"name", PyStr(<<"C">>)>> >>)>>)>> >>),
     PyDict(<< <<"benefits", PyList(<<PyStr(<<"x">>), PyInt(7)>>)>>,
               <<"dayCare", PyBool(TRUE)>> >>),
     PyDict(<< <<"ambulance",
                 PyDict(<< <<"benefits",
                             PyList(<<PyDict(<< <<"limit", PyInt(1)>> >>),
                                      PyDict(<< <<"limit", PyInt(2)>> >>)>>)>> >>)>>,
               <<"limit", PyInt(9)>> >>)}

\* flatten_dict on a nested object, with the default parent_key and sep.
ApplyFlattenDict ==
    /\ fn = Idle
    /\ \E d \in FlattenInputs :
        /\ fnArgs' = <<d>>
        /\ fnResult' = flatten_dict(d, <<>>, <<" ">>)
    /\ fn' = "flatten_dict"
    /\ UNCHANGED <<store, embedding, request, outcome, ncalls, route>>

FnNext ==
    \/ ApplyKeywordMatching
    \/ ApplyAgeInBracket
    \/ ApplyFindApplicablePremium
    \/ ApplyGenerateCoverageSummary
    \/ ApplyExtractCoverageDetails
    \/ ApplyFlattenDict

FnSpec == FnInit /\ [][FnNext]_vars

----------------------------------------------------------------------------
(* What the properties speak about *)

\* get_recommendations has been called.
Called == ncalls > 0

\* The list the last call returned (empty before a call and on an error).
Returned == IF Called /\ ~IsRaise(outcome.ret) THEN outcome.ret.v ELSE <<>>

\* The document's isActive flag is true.
is_active(doc) == get(doc, "isActive", PyNone) = PyBool(TRUE)

\* The documents of the store with the given policy id.
docs_with_id(policy_id) ==
    {k \in 1..Len(store) : py_str(get(store[k], "_id", PyNone)) = policy_id}

zones_of(policy) == get(policy, "premiums", PyList(<<>>)).v
charts_of(zone) == get(zone, "premiumChart", PyList(<<>>)).v
options_of(chart) == get(chart, "premiumOptions", PyList(<<>>)).v
brackets_of(option) == get(option, "ageBrackets", PyList(<<>>)).v

\* The zone lists a city that matches the user's.
zone_has_city(zone, user_city) ==
    \E i \in 1..Len(get(zone, "cities", PyList(<<>>)).v) :
        city_matches(get(zone, "cities", PyList(<<>>)).v[i].v, user_city)

\* The brackets of a policy's premium table that apply to a request, each as
\* <<zone, sum-insured tier, option, bracket>> positions in the table.
applicable_brackets(policy, req) ==
    UNION {UNION {UNION {
        {<<z, c, o, b>> :
            b \in {b \in 1..Len(brackets_of(options_of(charts_of(
                                 zones_of(policy)[z])[c])[o])) :
                      age_in_bracket(
                          get(brackets_of(options_of(charts_of(
                                  zones_of(policy)[z])[c])[o])[b],
                              "age", PyStr(<<>>)),
                          req.user_age)}} :
        o \in {o \in 1..Len(options_of(charts_of(zones_of(policy)[z])[c])) :
                  get(options_of(charts_of(zones_of(policy)[z])[c])[o],
                      "type", PyNone) = PyStr(req.policy_category)}} :
        c \in 1..Len(charts_of(zones_of(policy)[z]))} :
        z \in {z \in 1..Len(zones_of(policy)) :
                  zone_has_city(zones_of(policy)[z], req.user_city)}}

\* The five bracket fields of a recommendation, read from the table at x.
bracket_fields(policy, x) ==
    [premium |->
         get(brackets_of(options_of(charts_of(
                 zones_of(policy)[x[1]])[x[2]])[x[3]])[x[4]],
             "premiumAmount", PyNone),
     sum_insured |->
         get(charts_of(zones_of(policy)[x[1]])[x[2]], "sumInsured", PyNone),
     zone |-> get(zones_of(policy)[x[1]], "zoneName", PyNone),
     composition |->
         get(options_of(charts_of(zones_of(policy)[x[1]])[x[2]])[x[3]],
             "composition", PyNone),
     age_bracket |->
         get(brackets_of(options_of(charts_of(
                 zones_of(policy)[x[1]])[x[2]])[x[3]])[x[4]],
             "age", PyNone)]

\* The same five fields of a returned recommendation.
fields_of(rec) ==
    [premium |-> rec.premium, sum_insured |-> rec.sum_insured,
     zone |-> rec.zone, composition |-> rec.composition,
     age_bracket |-> rec.age_bracket]

\* The applicable brackets of a policy priced within the budget.
affordable_brackets(policy, req) ==
    {x \in applicable_brackets(policy, req) :
        number(bracket_fields(policy, x).premium) <= req.user_budget}

\* The positions of the active documents in the store.
active_docs == {k \in 1..Len(store) : is_active(store[k])}

----------------------------------------------------------------------------
(* Properties of get_recommendations *)

\* C1: no policy whose isActive flag is not true appears in the list
\* returned by get_recommendations, whatever its premiums, text or score.
C1_InactiveNeverReturned ==
    \A i \in 1..Len(Returned) :
        \A k \in docs_with_id(Returned[i].policy_id) : is_active(store[k])

\* A call returned recommendations while the store held a document that is
\* not active, applies to the request and is priced within the budget.
C1_Witness ==
    /\ Returned # <<>>
    /\ \E k \in 1..Len(store) :
        /\ ~is_active(store[k])
        /\ affordable_brackets(store[k], request) # {}

\* C2: every recommendation returned has a premium that is at most the
\* user_budget of the call.
C2_PremiumWithinBudget ==
    \A i \in 1..Len(Returned) :
        /\ is_number(Returned[i].premium)
        /\ number(Returned[i].premium) <= request.user_budget

\* A call returned recommendations while an active policy that applies to
\* the request was priced above the budget.
C2_Witness ==
    /\ Returned # <<>>
    /\ \E k \in active_docs :
        /\ applicable_brackets(store[k], request) # {}
        /\ affordable_brackets(store[k], request) = {}

\* C3: in the list returned, every adjacent pair is in descending order of
\* combined_score, and in ascending order of premium where the scores are
\* equal.
C3_SortedByScoreThenPremium ==
    \A i \in 1..(Len(Returned) - 1) :
        \/ Returned[i].combined_score > Returned[i + 1].combined_score
        \/ /\ Returned[i].combined_score = Returned[i + 1].combined_score
           /\ number(Returned[i].premium) <= number(Returned[i + 1].premium)

\* Two policies of equal score were returned, the cheaper one first although
\* it comes later in the store.
C3_Witness ==
    /\ Len(Returned) = 2
    /\ Returned[1].combined_score = Returned[2].combined_score
    /\ number(Returned[1].premium) < number(Returned[2].premium)
    /\ \E k1 \in docs_with_id(Returned[1].policy_id),
          k2 \in docs_with_id(Returned[2].policy_id) : k2 < k1

C7_NoActivePolicy ==
    (Called /\ active_docs = {}) =>
        /\ outcome.ret = Ok(<<>>)
        /\ outcome.resolver_calls = 0
        /\ outcome.extractor_calls = 0
        /\ outcome.matcher_calls = 0

\* A call was made on a store whose documents are all inactive, one of them
\* applicable to the request and within its budget.
C7_Witness ==
    /\ Called
    /\ active_docs = {}
    /\ \E k \in 1..Len(store) : affordable_brackets(store[k], request) # {}
    /\ outcome.ret = Ok(<<>>)

\* C8: when every active policy has no applicable premium or only premiums
\* above the budget, get_recommendations returns the empty list as a normal
\* result.
C8_NothingWithinBudget ==
    (Called /\ \A k \in active_docs : affordable_brackets(store[k], request) = {})
        => outcome.ret = Ok(<<>>)

\* A call was made on a store with an active policy that applies to the
\* request, all of whose applicable brackets are priced above the budget.
C8_Witness ==
    /\ Called
    /\ active_docs # {}
    /\ \A k \in active_docs : affordable_brackets(store[k], request) = {}
    /\ \E k \in active_docs : applicable_brackets(store[k], request) # {}
    /\ outcome.ret = Ok(<<>>)

\* C9: the premium, sum_insured, zone, composition and age_bracket of every
\* recommendation returned are those of one bracket of that policy's table
\* whose zone matches the city, whose option type is the category and whose
\* age range contains the age; and when the only active policy has exactly
\* one such bracket within the budget (and top_n >= 1), the list has exactly
\* one entry, with that bracket's premium and sum insured.
C9_FieldsOfOneBracket ==
    /\ \A i \in 1..Len(Returned) :
        \E k \in docs_with_id(Returned[i].policy_id) :
            \E x \in applicable_brackets(store[k], request) :
                fields_of(Returned[i]) = bracket_fields(store[k], x)
    /\ (/\ Called
        /\ request.top_n >= 1
        /\ Cardinality(active_docs) = 1
        /\ \A k \in active_docs :
               Cardinality(affordable_brackets(store[k], request)) = 1)
       => /\ outcome.ret.t = "ok"
          /\ Len(Returned) = 1
          /\ \A k \in active_docs :
                 \A x \in affordable_brackets(store[k], request) :
                     /\ Returned[1].premium = bracket_fields(store[k], x).premium
                     /\ Returned[1].sum_insured
                            = bracket_fields(store[k], x).sum_insured

\* The only active policy has several brackets that apply to the request in
\* different zones, exactly one of them within the budget, and was returned.
C9_Witness ==
    /\ Called
    /\ Cardinality(active_docs) = 1
    /\ Len(Returned) = 1
    /\ \A k \in active_docs :
        /\ Cardinality(applicable_brackets(store[k], request)) >= 2
        /\ Cardinality(affordable_brackets(store[k], request)) = 1

----------------------------------------------------------------------------
(* Properties of keyword_matching and of the age test *)

\* The categories of keyword_map with a trigger in the text, whatever the
\* letter case of the text.
categories_in(text) ==
    {k \in 1..Len(keyword_map) :
        \E j \in 1..Len(keyword_map[k][2]) :
            contains(keyword_map[k][2][j], lower(text))}

\* The names of a set of categories.
names_of(categories) == {keyword_map[k][1] : k \in categories}

\* keyword_matching has been applied to <<requirement, policy text>>.
Matched == fn = "keyword_matching"

\* C4: the keyword score (match_percentage) of keyword_matching lies in
\* [0, 100], and is 0 whenever the user's text holds no trigger of any
\* category.
C4_KeywordScoreRange ==
    Matched =>
        /\ fnResult.match_percentage.den > 0
        /\ 0 <= fnResult.match_percentage.num
        /\ fnResult.match_percentage.num <= 100 * fnResult.match_percentage.den
        /\ categories_in(fnArgs[1]) = {} => fnResult.match_percentage.num = 0

\* keyword_matching was applied to a user text without any trigger and a
\* policy text with triggers.
C4_Witness ==
    /\ Matched
    /\ categories_in(fnArgs[1]) = {}
    /\ categories_in(fnArgs[2]) # {}
    /\ fnResult.match_percentage.num = 0

\* C10: a category is requested when one of its triggers occurs in the
\* user's text in any letter case, a requested category is matched when one
\* of its triggers occurs in the policy text, matched_features are exactly
\* the matched categories, and the score is matched / requested * 100 (0
\* when nothing is requested); "I need cancer coverage" against "cancer
\* treatment covered up to 500000" gives "cancer" and 100.
C10_KeywordMatching ==
    Matched =>
        /\ fnResult.total_keywords = Cardinality(categories_in(fnArgs[1]))
        /\ fnResult.keyword_score
               = Cardinality(categories_in(fnArgs[1]) \cap categories_in(fnArgs[2]))
        /\ Len(fnResult.matched_features) = fnResult.keyword_score
        /\ {fnResult.matched_features[i] :
                i \in 1..Len(fnResult.matched_features)}
               = names_of(categories_in(fnArgs[1]) \cap categories_in(fnArgs[2]))
        /\ fnResult.match_percentage.num
               * Cardinality(categories_in(fnArgs[1]))
               = 100 * Cardinality(categories_in(fnArgs[1])
                                       \cap categories_in(fnArgs[2]))
                     * fnResult.match_percentage.den
        /\ categories_in(fnArgs[1]) = {} => fnResult.match_percentage.num = 0
        /\ (/\ fnArgs[1] = <<"I"," ","n","e","e","d"," ","c","a","n","c","e","r"," ","c","o","v","e","r","a","g","e">>
            /\ fnArgs[2] = <<"c","a","n","c","e","r"," ","t","r","e","a","t","m","e","n","t"," ","c","o","v","e","r","e","d"," ","u","p"," ","t","o"," ","5","0","0","0","0","0">>)
           => /\ fnResult.matched_features = <<"cancer">>
              /\ fnResult.match_percentage.num
                     = 100 * fnResult.match_percentage.den

\* keyword_matching was applied to a user text that names a category in
\* capitals and another one, and a policy text that covers one of the two.
C10_Witness ==
    /\ Matched
    /\ \E k \in categories_in(fnArgs[1]) :
           \A j \in 1..Len(keyword_map[k][2]) :
               ~contains(keyword_map[k][2][j], fnArgs[1])
    /\ Cardinality(categories_in(fnArgs[1])) = 2
    /\ Cardinality(categories_in(fnArgs[1]) \cap categories_in(fnArgs[2])) = 1

\* The age test has been applied to <<bracket, age>>.
Tested == fn = "age_in_bracket"

\* C5: a bracket "N+" matches every age >= N, with no upper limit, "A-B"
\* matches exactly the ages A to B, and "N" matches the age N only.
C5_AgeBracketMatching ==
    Tested =>
        (fnResult <=>
            CASE fnArgs[1].form = "N+" -> fnArgs[2] >= fnArgs[1].n
              [] fnArgs[1].form = "A-B" ->
                     fnArgs[1].a <= fnArgs[2] /\ fnArgs[2] <= fnArgs[1].b
              [] fnArgs[1].form = "N" -> fnArgs[2] = fnArgs[1].n)

----------------------------------------------------------------------------
(* Properties of find_applicable_premium *)

\* find_applicable_premium has been applied to
\* <<premiums, user_age, user_city, policy_category>>.
Resolved == fn = "find_applicable_premium"

\* The table and the request of that application, as a policy and a request.
resolved_policy == PyDict(<< <<"premiums", fnArgs[1]>> >>)
resolved_request ==
    [user_age |-> fnArgs[2], user_city |-> fnArgs[3], policy_category |-> fnArgs[4]]

\* The five fields of a match returned by find_applicable_premium.
match_fields(info) ==
    [premium |-> get(info, "premium_amount", PyNone),
     sum_insured |-> get(info, "sum_insured", PyNone),
     zone |-> get(info, "zone", PyNone),
     composition |-> get(info, "composition", PyNone),
     age_bracket |-> get(info, "age_bracket", PyNone)]

\* C11: when several brackets match across zones and tiers,
\* find_applicable_premium returns one of them, and none of the matching
\* brackets is cheaper than the one returned.
C11_CheapestMatch ==
    (Resolved /\ applicable_brackets(resolved_policy, resolved_request) # {}) =>
        /\ isinstance(fnResult, "dict")
        /\ \E x \in applicable_brackets(resolved_policy, resolved_request) :
               match_fields(fnResult) = bracket_fields(resolved_policy, x)
        /\ \A y \in applicable_brackets(resolved_policy, resolved_request) :
               number(match_fields(fnResult).premium)
                   <= number(bracket_fields(resolved_policy, y).premium)

\* Brackets of two zones and of two tiers of one zone matched, and the one
\* returned is cheaper than the first of them.
C11_Witness ==
    /\ Resolved
    /\ isinstance(fnResult, "dict")
    /\ \E x, y, z \in applicable_brackets(resolved_policy, resolved_request) :
        /\ x[1] # y[1]
        /\ x[1] = z[1] /\ x[2] # z[2]
        /\ x = <<1, 1, 1, 1>>
        /\ number(match_fields(fnResult).premium)
               < number(bracket_fields(resolved_policy, x).premium)

\* A value of the form "N+", "A-B" or "N" (N, A, B written in digits).
all_digits(s) == s # <<>> /\ \A i \in 1..Len(s) : IsDigit(s[i])

well_formed_age(age) ==
    /\ isinstance(age, "str")
    /\ \/ all_digits(age.v)
       \/ /\ Len(age.v) >= 2
          /\ age.v[Len(age.v)] = "+"
          /\ all_digits(SubSeq(age.v, 1, Len(age.v) - 1))
       \/ \E k \in 1..Len(age.v) :
              /\ age.v[k] = "-"
              /\ all_digits(SubSeq(age.v, 1, k - 1))
              /\ all_digits(SubSeq(age.v, k + 1, Len(age.v)))

\* C13: a bracket whose age is not of the form "N+", "A-B" or "N" is
\* skipped by find_applicable_premium: no error is raised, it contributes
\* no match, and the well-formed brackets are still evaluated.
C13_MalformedBracketSkipped ==
    Resolved =>
        /\ ~IsRaise(fnResult)
        /\ \A x \in applicable_brackets(resolved_policy, resolved_request) :
               well_formed_age(bracket_fields(resolved_policy, x).age_bracket)
        /\ isinstance(fnResult, "dict")
               => well_formed_age(match_fields(fnResult).age_bracket)
        /\ (\E x \in applicable_brackets(resolved_policy, resolved_request) :
                well_formed_age(bracket_fields(resolved_policy, x).age_bracket))
               => isinstance(fnResult, "dict")

\* The same text with the case of every letter changed.
swap_case(s) ==
    [i \in 1..Len(s) |->
        IF s[i] \in DOMAIN UpperIndex THEN LowerMap[UpperIndex[s[i]]]
        ELSE IF \E j \in 1..Len(LowerMap) : LowerMap[j] = s[i]
        THEN UpperChars[CHOOSE j \in 1..Len(LowerMap) : LowerMap[j] = s[i]]
        ELSE s[i]]

\* The same letters in the same order, whatever their case.
same_letters(a, b) == lower(a) = lower(b)

\* The zones of the table one of whose cities is the user's city or
\* contains it, whatever the letter case.
zones_of_city(policy, user_city) ==
    {z \in 1..Len(zones_of(policy)) :
        \E i \in 1..Len(get(zones_of(policy)[z], "cities", PyList(<<>>)).v) :
            contains(lower(user_city),
                     lower(get(zones_of(policy)[z], "cities", PyList(<<>>)).v[i].v))}

\* The option types of the zones that apply.
types_in(policy, zones) ==
    UNION {UNION {
        {get(options_of(charts_of(zones_of(policy)[z])[c])[o], "type", PyNone) :
            o \in 1..Len(options_of(charts_of(zones_of(policy)[z])[c]))} :
        c \in 1..Len(charts_of(zones_of(policy)[z]))} :
        z \in zones}

\* C16: a zone applies exactly when one of its cities matches the requested
\* city in any letter case, exactly or as a substring; an option applies
\* exactly when its type equals the category character for character.  So
\* the letter case of the city never changes the result, and a category
\* that differs from the types only in letter case matches nothing.
C16_CityAnyCaseCategoryExact ==
    Resolved =>
        /\ \A x \in applicable_brackets(resolved_policy, resolved_request) :
               /\ x[1] \in zones_of_city(resolved_policy, fnArgs[3])
               /\ get(options_of(charts_of(zones_of(resolved_policy)[x[1]])[x[2]])[x[3]],
                      "type", PyNone) = PyStr(fnArgs[4])
        /\ zones_of_city(resolved_policy, fnArgs[3]) = {} => fnResult = PyNone
        /\ PyStr(fnArgs[4]) \notin
               types_in(resolved_policy, zones_of_city(resolved_policy, fnArgs[3]))
               => fnResult = PyNone
        /\ fnResult = find_applicable_premium(fnArgs[1], fnArgs[2],
                                              swap_case(fnArgs[3]), fnArgs[4])
        /\ (fnResult # PyNone) =>
               /\ match_fields(fnResult).zone
                      \in {get(zones_of(resolved_policy)[z], "zoneName", PyNone) :
                              z \in zones_of_city(resolved_policy, fnArgs[3])}
               /\ \E x \in applicable_brackets(resolved_policy, resolved_request) :
                      match_fields(fnResult) = bracket_fields(resolved_policy, x)

\* The city was given in capitals and found as a part of a city written in
\* another case, while the table holds an option whose type is the category
\* in another case, which did not apply.
C16_Witness ==
    /\ Resolved
    /\ isinstance(fnResult, "dict")
    /\ fnArgs[3] # lower(fnArgs[3])
    /\ \E t \in types_in(resolved_policy, zones_of_city(resolved_policy, fnArgs[3])) :
        /\ t # PyStr(fnArgs[4])
        /\ same_letters(t.v, fnArgs[4])

----------------------------------------------------------------------------
(* Further properties of get_recommendations *)

\* The resolver gives none for each of the documents unmatched, none of them
\* is in the list returned, and at most the other active documents were
\* scored.
unmatched_excluded(unmatched, active) ==
    /\ \A k \in unmatched :
        /\ find_applicable_premium(
               get(store[k], "premiums", PyList(<<>>)), request.user_age,
               request.user_city, request.policy_category) = PyNone
        /\ \A i \in 1..Len(Returned) : k \notin docs_with_id(Returned[i].policy_id)
    /\ outcome.extractor_calls <= active - Cardinality(unmatched)
    /\ outcome.matcher_calls <= active - Cardinality(unmatched)

\* The active documents none of whose brackets applies to the request.
unresolvable_docs ==
    {k \in active_docs : applicable_brackets(store[k], request) = {}}

\* C12: find_applicable_premium returns none for a policy none of whose
\* brackets matches the city, category and age, and such a policy is never
\* scored and never appears in the list returned.
C12_NoMatchExcluded ==
    Called =>
        unmatched_excluded(unresolvable_docs, Cardinality(active_docs))

\* A call returned recommendations from a store with an active policy that
\* has no bracket for the request.
C12_Witness ==
    /\ Returned # <<>>
    /\ unresolvable_docs # {}

\* The documents of the store that follow the schema.
well_formed_docs == SelectSeq(store, LAMBDA d : d \in Catalogue)

\* The entries returned for the documents that follow the schema.
well_formed_returned ==
    SelectSeq(Returned,
              LAMBDA rec : \E k \in docs_with_id(rec.policy_id) :
                               store[k] \in Catalogue)

\* C14: one active record with missing nested fields or with values of an
\* unexpected shape never aborts the pass: get_recommendations does not
\* raise, and the well-formed policies are ranked as without that record.
C14_MalformedRecordTolerated ==
    (Called /\ \E k \in 1..Len(store) : store[k] \in AbsentDocs \cup MisshapedDocs)
        => /\ ~IsRaise(outcome.ret)
           /\ request.top_n >= Len(store)
                  => well_formed_returned
                         = get_recommendations(well_formed_docs, embedding,
                                               request).ret.v

\* The store with every null-valued optional field removed.
nulls_removed ==
    [k \in 1..Len(store) |->
        IF store[k] \in NullDocs
        THEN AbsentDoc(CHOOSE field \in OptionalFields : store[k] = NullDoc(field))
        ELSE store[k]]

\* C15: with an optional field present and null, get_recommendations raises
\* no error and returns what it returns with the field removed.
C15_NullLikeAbsent ==
    (Called /\ \E k \in 1..Len(store) : store[k] \in NullDocs)
        => /\ ~IsRaise(outcome.ret)
           /\ outcome.ret = get_recommendations(nulls_removed, embedding,
                                                request).ret

Min(a, b) == IF a <= b THEN a ELSE b

\* The sorted list of all policies that survive the filter of the request:
\* what get_recommendations returns when top_n is the size of the store.
sorted_candidates ==
    get_recommendations(store, embedding,
                        [request EXCEPT !.top_n = Len(store)]).ret.v

\* C17: for any integer top_n the route accepts, the recommendations
\* returned are min(top_n, number of surviving policies) many and are a
\* prefix of the sorted list of the surviving policies.
C17_FirstTopN ==
    route.response.status = 200
        => /\ Len(route.response.recommendations)
                  = Min(request.top_n, Len(sorted_candidates))
           /\ route.response.recommendations
                  = SubSeq(sorted_candidates, 1,
                           Len(route.response.recommendations))

\* C18: when a request has ended, on whatever path, every store client
\* created for it has been closed.
C18_HandleReleased ==
    route.response # NoResponse => route.clients_open = 0

\* C19: a request during which the store read or an encode call failed ends
\* with an error response that carries no recommendations.
C19_CollaboratorFailureFailsRequest ==
    route.fault # NoFault
        => /\ route.response.status = 500
           /\ "recommendations" \notin DOMAIN route.response

\* A second request whose encode call fails in the scoring loop after one
\* recommendation was built.
C19_Witness ==
    /\ ncalls = 2
    /\ route.fault = [at |-> "encode", k |-> 3]
    /\ outcome.extractor_calls = 2
    /\ route.response.status = 500

\* C20: once the service runs, no request fails because a connection
\* parameter is missing.
C20_NoMissingParameterAfterStartup ==
    route.phase = "running" => route.response # HTTPException(500, MissingUrl)

----------------------------------------------------------------------------
(* Scoring, filtering and call counts of a ranking pass *)

\* 10 * den times the difference between the combined score of rec, in units
\* of 1e-4, and keyword_score * 0.007 + nlp_score * 0.3 in the same units.
weighting_error(rec) ==
    10 * rec.keyword_score.den * rec.combined_score
        - (700 * rec.keyword_score.num
               + 3 * rec.nlp_score * rec.keyword_score.den)

\* The keyword score of a is greater than that of b.
more_keywords(a, b) ==
    a.keyword_score.num * b.keyword_score.den
        > b.keyword_score.num * a.keyword_score.den

\* C21 as stated: the combined score of every recommendation returned is
\* exactly keyword_score * 0.007 + nlp_score * 0.3.
C21_ExactWeightedSum ==
    \A i \in 1..Len(Returned) : weighting_error(Returned[i]) = 0

\* C21, amended: the combined score of every recommendation returned is
\* keyword_score * 0.007 + nlp_score * 0.3 rounded to four decimals (at most
\* 0.00005 away), and of two recommendations with equal semantic scores the
\* one with the higher keyword score stands first.
C21_RoundedWeightedSum ==
    \A i \in 1..Len(Returned) :
        /\ 2 * weighting_error(Returned[i]) <= 10 * Returned[i].keyword_score.den
        /\ -2 * weighting_error(Returned[i]) <= 10 * Returned[i].keyword_score.den
        /\ \A j \in 1..Len(Returned) :
               (/\ Returned[i].nlp_score = Returned[j].nlp_score
                /\ more_keywords(Returned[i], Returned[j])) => i < j

\* A list with a rounded score, in which a policy with more keywords and an
\* equal semantic score stands before a cheaper one.
C21_Witness ==
    /\ \E i \in 1..Len(Returned) : weighting_error(Returned[i]) # 0
    /\ \E i, j \in 1..Len(Returned) :
        /\ Returned[i].nlp_score = Returned[j].nlp_score
        /\ more_keywords(Returned[i], Returned[j])
        /\ number(Returned[i].premium) > number(Returned[j].premium)

----------------------------------------------------------------------------
(* Properties of the summary generator *)

\* The headline categories, as <<name, triggers>>, whose triggers occur in
\* the requirement, in the order of coverage_checks.
requested_headlines(user_requirement) ==
    SelectSeq(coverage_checks,
              LAMBDA check : \E k \in 1..Len(check[2]) :
                  contains(check[2][k], lower(user_requirement)))

\* Those of them with a trigger in the text of the policy, and the others.
confirmed_headlines(user_requirement, text) ==
    SelectSeq(requested_headlines(user_requirement),
              LAMBDA check : \E k \in 1..Len(check[2]) :
                  contains(check[2][k], lower(text)))

unconfirmed_headlines(user_requirement, text) ==
    SelectSeq(requested_headlines(user_requirement),
              LAMBDA check : \A k \in 1..Len(check[2]) :
                  ~contains(check[2][k], lower(text)))

SummaryApplied == fn = "generate_coverage_summary"

\* C22: generate_coverage_summary returns the generic text exactly when the
\* requirement has no trigger of a headline category, and then returns it
\* for every policy.
C22_GenericSummary ==
    SummaryApplied =>
        /\ fnResult = Ok(generic_summary)
               <=> requested_headlines(fnArgs[1]) = <<>>
        /\ requested_headlines(fnArgs[1]) = <<>> =>
               \A policy \in SummaryPolicies :
                   generate_coverage_summary(
                       fnArgs[1], extract_coverage_details(policy),
                       keyword_matching(fnArgs[1], extract_coverage_details(policy)))
                       = fnResult

\* The generic text for a requirement that names a keyword category
\* (hospital) but no headline trigger, on a policy with cover and add-ons.
C22_Witness ==
    /\ SummaryApplied
    /\ fnArgs = <<<<"h","o","s","p","i","t","a","l"," ","s","t","a","y">>, RichPolicy>>
    /\ fnResult = Ok(generic_summary)

\* The part of s behind the first occurrence of p, empty if there is none.
behind(p, s) ==
    IF ~contains(p, s) THEN <<>>
    ELSE SubSeq(s,
                Len(p) + 1 + CHOOSE i \in 0..(Len(s) - Len(p)) :
                    /\ \A j \in 1..Len(p) : s[i + j] = p[j]
                    /\ \A h \in 0..(i - 1) : \E j \in 1..Len(p) : s[h + j] # p[j],
                Len(s))

AddOnsSentence == <<" ","A","v","a","i","l","a","b","l","e"," ","a","d","d","-","o","n","s"," ","i","n","c","l","u","d","e"," ">>
RidersSuggestion == <<"Y","o","u"," ","m","a","y"," ","e","x","p","l","o","r","e"," ","o","p","t","i","o","n","a","l"," ","r","i","d","e","r","s"," ","a","n","d"," ","a","d","d","-","o","n","s">>

\* The summary mentions the first three of confirmed with the positive
\* marker and no other, the items of unconfirmed behind one negative marker
\* that is there iff there is such an item and is followed by the
\* suggestion, and the names of the first two of addons iff there is one.
summary_mentions(summary, confirmed, unconfirmed, addons) ==
    /\ \A i \in 1..Len(confirmed) :
           contains(<<CheckMark>> \o <<" ","Y","e","s",","," ">> \o confirmed[i][1] \o <<" ","i","s"," ","c","o","v","e","r","e","d">>,
                    summary) <=> i <= 3
    /\ contains(<<CrossMark>>, summary) <=> unconfirmed # <<>>
    /\ ~contains(<<CrossMark>>, behind(<<CrossMark>>, summary))
    /\ contains(RidersSuggestion, summary) <=> unconfirmed # <<>>
    /\ contains(RidersSuggestion, summary) =>
           contains(RidersSuggestion, behind(<<CrossMark>>, summary))
    /\ \A i \in 1..Len(unconfirmed) :
           /\ contains(unconfirmed[i][1], behind(<<CrossMark>>, summary))
           /\ ~contains(unconfirmed[i][1] \o <<" ","i","s"," ","c","o","v","e","r","e","d">>, summary)
    /\ contains(AddOnsSentence, summary) <=> addons # <<>>
    /\ \A i \in 1..Len(addons) :
           contains(get(addons[i], "name", PyNone).v, behind(AddOnsSentence, summary))
               <=> i <= 2

\* C23: when the requirement names a headline category, every category it
\* names is mentioned as covered or as not covered according to the policy
\* text: the first three covered ones with the positive marker, all that are
\* not covered behind the negative marker, with the riders suggestion iff
\* there is one, and the first two available add-ons iff the policy has any.
C23_SummaryComposition ==
    (SummaryApplied /\ requested_headlines(fnArgs[1]) # <<>>) =>
        /\ fnResult.t = "ok"
        /\ summary_mentions(
               fnResult.v,
               confirmed_headlines(fnArgs[1], extract_coverage_details(fnArgs[2]).text),
               unconfirmed_headlines(fnArgs[1], extract_coverage_details(fnArgs[2]).text),
               extract_coverage_details(fnArgs[2]).addons)

\* A summary for five categories the policy covers, with three add-ons
\* available.
C23_Witness ==
    /\ SummaryApplied
    /\ fnResult.t = "ok"
    /\ Len(confirmed_headlines(fnArgs[1], extract_coverage_details(fnArgs[2]).text)) = 5
    /\ Len(extract_coverage_details(fnArgs[2]).addons) = 3

----------------------------------------------------------------------------
(* Properties of the coverage extractor *)

\* The list under field of a document, empty if there is none.
entries_of(policy, field) ==
    IF has_key(policy, field) /\ isinstance(get(policy, field, PyNone), "list")
    THEN get(policy, field, PyNone).v
    ELSE <<>>

\* The positions in entries of the objects whose flag is truthy.
flagged_positions(entries, flag) ==
    {i \in 1..Len(entries) :
        isinstance(entries[i], "dict") /\ truthy(get(entries[i], flag, PyNone))}

\* selected holds the entries at the positions of chosen, in their order.
in_original_order(selected, entries, chosen) ==
    /\ Len(selected) = Cardinality(chosen)
    /\ \A i \in chosen :
           selected[Cardinality({h \in chosen : h <= i})] = entries[i]

\* Every entry at a position of chosen has its name and details in text,
\* and no other object of entries has.
only_chosen_in_text(text, entries, chosen, name_key) ==
    \A i \in 1..Len(entries) :
        isinstance(entries[i], "dict") =>
            /\ contains(get(entries[i], name_key, PyNone).v, text) <=> i \in chosen
            /\ get(entries[i], "details", PyStr(<<>>)).v # <<>> =>
                   (contains(get(entries[i], "details", PyNone).v, text)
                        <=> i \in chosen)

ExtractorApplied == fn = "extract_coverage_details"

\* C24: extract_coverage_details selects exactly the special coverages with
\* a truthy isCovered and the add-ons with a truthy isAvailable, in their
\* original order, and only the selected entries have their name and
\* details in the text.
C24_OnlySelectedEntries ==
    ExtractorApplied =>
        /\ in_original_order(
               fnResult.special_coverages,
               entries_of(fnArgs[1], "specialCoverages"),
               flagged_positions(entries_of(fnArgs[1], "specialCoverages"),
                                 "isCovered"))
        /\ in_original_order(
               fnResult.addons,
               entries_of(fnArgs[1], "addOns_OptionalBenefits"),
               flagged_positions(entries_of(fnArgs[1], "addOns_OptionalBenefits"),
                                 "isAvailable"))
        /\ only_chosen_in_text(
               fnResult.text, entries_of(fnArgs[1], "specialCoverages"),
               flagged_positions(entries_of(fnArgs[1], "specialCoverages"),
                                 "isCovered"),
               "diseaseName")
        /\ only_chosen_in_text(
               fnResult.text, entries_of(fnArgs[1], "addOns_OptionalBenefits"),
               flagged_positions(entries_of(fnArgs[1], "addOns_OptionalBenefits"),
                                 "isAvailable"),
               "name")

\* The extractor applied to the document with true, false, truthy, falsy and
\* missing flags: two special coverages and two add-ons are selected.
C24_Witness ==
    /\ ExtractorApplied
    /\ fnArgs = <<MixedFlagsPolicy>>
    /\ Len(fnResult.special_coverages) = 2
    /\ Len(fnResult.addons) = 2

----------------------------------------------------------------------------
(* Properties of flatten_dict *)

\* The path of key k below the path prefix.
path_under(prefix, k) ==
    IF prefix = <<>> THEN KeyText(k) ELSE prefix \o <<" ">> \o KeyText(k)

is_object_array(v) ==
    isinstance(v, "list") /\ \A i \in 1..Len(v.v) : isinstance(v.v[i], "dict")

\* The paths of object keys that lead to the leaves of d, below prefix.
RECURSIVE leaf_paths(_, _)
leaf_paths(d, prefix) ==
    UNION {
        IF isinstance(d.v[i][2], "dict")
        THEN leaf_paths(d.v[i][2], path_under(prefix, d.v[i][1]))
        ELSE IF is_object_array(d.v[i][2])
        THEN UNION {leaf_paths(d.v[i][2].v[e], path_under(prefix, d.v[i][1])) :
                        e \in 1..Len(d.v[i][2].v)}
        ELSE {path_under(prefix, d.v[i][1])} :
        i \in 1..Len(d.v)}

\* For every array of objects in d, flat has each field of its elements
\* under the path of the array, with the value of the last element that has
\* the field.
RECURSIVE last_element_wins(_, _, _)
last_element_wins(d, prefix, flat) ==
    \A i \in 1..Len(d.v) :
        IF isinstance(d.v[i][2], "dict")
        THEN last_element_wins(d.v[i][2], path_under(prefix, d.v[i][1]), flat)
        ELSE is_object_array(d.v[i][2]) =>
            \A e \in 1..Len(d.v[i][2].v) :
                \A f \in 1..Len(d.v[i][2].v[e].v) :
                    (\A later \in (e + 1)..Len(d.v[i][2].v) :
                         ~has_key(d.v[i][2].v[later], d.v[i][2].v[e].v[f][1]))
                        => \E x \in 1..Len(flat.v) :
                               /\ flat.v[x][1]
                                      = path_under(path_under(prefix, d.v[i][1]),
                                                   d.v[i][2].v[e].v[f][1])
                               /\ flat.v[x][2] = d.v[i][2].v[e].v[f][2]

FlattenApplied == fn = "flatten_dict"

\* C25: the keys of flatten_dict's result are the paths of object keys to
\* the leaves, one entry per distinct path and none with an array index, and
\* a field repeated across the elements of an array has the value of the
\* last element.
C25_PathsWithoutIndex ==
    FlattenApplied =>
        /\ {fnResult.v[x][1] : x \in 1..Len(fnResult.v)} = leaf_paths(fnArgs[1], <<>>)
        /\ Len(fnResult.v) = Cardinality(leaf_paths(fnArgs[1], <<>>))
        /\ \A x \in 1..Len(fnResult.v) :
               \A c \in 1..Len(fnResult.v[x][1]) : ~IsDigit(fnResult.v[x][1][c])
        /\ last_element_wins(fnArgs[1], <<>>, fnResult)

\* flatten_dict applied to an array of three objects that repeat a field:
\* two entries, the name of the last and the limit of the second.
C25_Witness ==
    /\ FlattenApplied
    /\ fnResult = PyDict(<< <<<<"b","e","n","e","f","i","t","s"," ","n","a","m","e">>, PyStr(<<"C">>)>>,
                            <<<<"b","e","n","e","f","i","t","s"," ","l","i","m","i","t">>, PyInt(2)>> >>)

----------------------------------------------------------------------------
(* Properties of the filter and of the number of calls of a pass *)

\* The premium of the bracket at x, 0 when it has no premiumAmount.
premium_at(policy, x) ==
    get(brackets_of(options_of(charts_of(
            zones_of(policy)[x[1]])[x[2]])[x[3]])[x[4]],
        "premiumAmount", PyInt(0))

\* The applicable brackets at x of a policy without a premiumAmount.
unpriced_brackets(policy, req) ==
    {x \in applicable_brackets(policy, req) :
        ~has_key(brackets_of(options_of(charts_of(
                     zones_of(policy)[x[1]])[x[2]])[x[3]])[x[4]],
                 "premiumAmount")}

\* The positions of the active documents with an applicable bracket whose
\* premium is at most the budget.
survivors(req) ==
    {k \in active_docs :
        \E x \in applicable_brackets(store[k], req) :
            number(premium_at(store[k], x)) <= req.user_budget}

\* The positions in returned of the document at k.
entries_for(returned, k) ==
    {i \in 1..Len(returned) : k \in docs_with_id(returned[i].policy_id)}

Completed == Called /\ ~IsRaise(outcome.ret)

calls_for(kept) ==
    /\ outcome.extractor_calls = Cardinality(kept)
    /\ outcome.encode_calls = IF kept = {} THEN 0 ELSE 1 + Cardinality(kept)

\* C26: a pass calls the extractor once per policy that passed the filter
\* and the embedding function once more than that, for the user's text; a
\* pass that ends with the early empty result calls neither.
C26_CallsPerSurvivor == Completed => calls_for(survivors(request))

\* A pass over two active policies of which one passed the filter: one
\* extraction and two encodings.
C26_Witness ==
    /\ Completed
    /\ Cardinality(active_docs) = 2
    /\ Cardinality(survivors(request)) = 1
    /\ outcome.extractor_calls = 1
    /\ outcome.encode_calls = 2

all_once(returned, kept, top_n) ==
    /\ \A i \in 1..Len(returned) :
           \E k \in kept : k \in docs_with_id(returned[i].policy_id)
    /\ \A k \in kept : Cardinality(entries_for(returned, k)) <= 1
    /\ Len(returned) = Min(top_n, Cardinality(kept))
    /\ top_n >= Cardinality(kept)
           => \A k \in kept : Cardinality(entries_for(returned, k)) = 1

\* C28: the policies of the returned list are active policies with an
\* applicable bracket whose premium is at most the budget, and when top_n is
\* at least the number of such policies each of them is in the list exactly
\* once.
C28_FilterComplete ==
    Completed => all_once(outcome.ret.v, survivors(request), request.top_n)

\* Of two active policies, a pass returned the one whose premium equals the
\* budget and not the other.
C28_Witness ==
    /\ Completed
    /\ Cardinality(active_docs) = 2
    /\ Cardinality(survivors(request)) = 1
    /\ Len(outcome.ret.v) = 1
    /\ number(outcome.ret.v[1].premium) = request.user_budget

unpriced_at_zero(returned, unpriced) ==
    \A k \in unpriced :
        /\ \A i \in entries_for(returned, k) : returned[i].premium = PyInt(0)
        /\ request.top_n >= Len(store) => entries_for(returned, k) # {}

\* C29: an active policy with an applicable bracket that has no
\* premiumAmount passes the filter, and is returned with premium 0.
C29_UnpricedBracketIsFree ==
    Completed =>
        unpriced_at_zero(
            outcome.ret.v,
            {k \in active_docs : unpriced_brackets(store[k], request) # {}})

\* A policy with an unpriced bracket and one above the budget, both
\* applicable, was returned with premium 0.
C29_Witness ==
    /\ Completed
    /\ \E i \in 1..Len(outcome.ret.v) :
        /\ outcome.ret.v[i].premium = PyInt(0)
        /\ \E k \in docs_with_id(outcome.ret.v[i].policy_id) :
            /\ unpriced_brackets(store[k], request) # {}
            /\ Cardinality(applicable_brackets(store[k], request)) = 2

----------------------------------------------------------------------------
(* Property of the embedding model's lifecycle *)

\* C27: whatever the sequence of requests, the embedding model has been
\* loaded at most once since the process started.
C27_ModelLoadedOnce == route.model_loads <= 1
====
